---- MODULE Spec2Model ----
(***************************************************************************)
(* SkillScope: the aggregation pipeline (src/src/pipeline.py), the Redis   *)
(* cache (src/src/cache_manager.py), the extraction client                 *)
(* (src/src/gemini_extractor.py), the job source client                    *)
(* (src/src/france_travail_api.py) and the click handler with its          *)
(* in-flight registry (src/app.py).                                        *)
(*                                                                         *)
(* A Python str is a sequence of one-character strings, so that strip,     *)
(* lower, split and capitalize are computed character by character.        *)
(***************************************************************************)
EXTENDS Integers, Sequences, FiniteSets, TLC

(***************************************************************************)
(* Bounds of the model.                                                    *)
(***************************************************************************)
MaxBatches == 3
MaxHashSeed == 1

(***************************************************************************)
(* Program constants.                                                      *)
(***************************************************************************)
GEMINI_BATCH_SIZE == 5
TOP_SKILLS_LIMIT == 20

(***************************************************************************)
(* Characters and the str methods the code uses.                           *)
(***************************************************************************)
LowerLetters ==
  <<"a", "b", "c", "d", "e", "f", "g", "h", "i", "j", "k", "l", "m", "n",
    "o", "p", "q", "r", "s", "t", "u", "v", "w", "x", "y", "z", "à", "é">>

UpperLetters ==
  <<"A", "B", "C", "D", "E", "F", "G", "H", "I", "J", "K", "L", "M", "N",
    "O", "P", "Q", "R", "S", "T", "U", "V", "W", "X", "Y", "Z", "À", "É">>

UpperToLower ==
  [c \in {UpperLetters[i] : i \in 1..Len(UpperLetters)} |->
     LowerLetters[CHOOSE i \in 1..Len(UpperLetters) : UpperLetters[i] = c]]

LowerToUpper ==
  [c \in {LowerLetters[i] : i \in 1..Len(LowerLetters)} |->
     UpperLetters[CHOOSE i \in 1..Len(LowerLetters) : LowerLetters[i] = c]]

IsUpperChar(c) == c \in DOMAIN UpperToLower

IsLowerChar(c) == c \in DOMAIN LowerToUpper

LowerChar(c) == IF IsUpperChar(c) THEN UpperToLower[c] ELSE c

UpperChar(c) == IF IsLowerChar(c) THEN LowerToUpper[c] ELSE c

IsSpace(c) == c = " "

\* str.lower()
Lower(s) == [i \in 1..Len(s) |-> LowerChar(s[i])]

RECURSIVE LStrip(_)
LStrip(s) ==
  IF s = <<>> THEN <<>>
  ELSE IF IsSpace(Head(s)) THEN LStrip(Tail(s)) ELSE s

RECURSIVE RStrip(_)
RStrip(s) ==
  IF s = <<>> THEN <<>>
  ELSE IF IsSpace(s[Len(s)]) THEN RStrip(SubSeq(s, 1, Len(s) - 1)) ELSE s

\* str.strip()
Strip(s) == RStrip(LStrip(s))

\* str.isupper(): at least one cased character and no lower-case one
IsUpper(s) ==
  /\ \E i \in 1..Len(s) : IsUpperChar(s[i])
  /\ \A i \in 1..Len(s) : ~IsLowerChar(s[i])

\* str.endswith(suffix)
EndsWith(s, suffix) ==
  /\ Len(s) >= Len(suffix)
  /\ SubSeq(s, Len(s) - Len(suffix) + 1, Len(s)) = suffix

\* str.split(): the maximal runs of non-whitespace characters
RECURSIVE SplitFrom(_, _, _)
SplitFrom(s, word, words) ==
  IF s = <<>>
  THEN IF word = <<>> THEN words ELSE Append(words, word)
  ELSE IF IsSpace(Head(s))
       THEN SplitFrom(Tail(s), <<>>,
                      IF word = <<>> THEN words ELSE Append(words, word))
       ELSE SplitFrom(Tail(s), Append(word, Head(s)), words)

Split(s) == SplitFrom(s, <<>>, <<>>)

\* str.capitalize()
Capitalize(w) ==
  IF w = <<>> THEN <<>> ELSE <<UpperChar(Head(w))>> \o Lower(Tail(w))

\* ' '.join(words)
RECURSIVE JoinWords(_)
JoinWords(words) ==
  IF words = <<>> THEN <<>>
  ELSE IF Len(words) = 1 THEN words[1]
  ELSE words[1] \o <<" ">> \o JoinWords(Tail(words))

(***************************************************************************)
(* _standardize_skill_python                                               *)
(***************************************************************************)
\* the terms whose exact casing the function returns (lines 29-34)
ExactCasedTerms ==
  << <<"P", "o", "w", "e", "r", " ", "B", "I">>,
     <<"M", "i", "c", "r", "o", "s", "o", "f", "t", " ", "E", "x", "c", "e", "l">>,
     <<"B", "i", "g", " ", "D", "a", "t", "a">>,
     <<"M", "a", "c", "h", "i", "n", "e", " ", "L", "e", "a", "r", "n", "i", "n", "g">>,
     <<"V", "e", "i", "l", "l", "e", " ", "T", "e", "c", "h", "n", "o", "l", "o", "g", "i", "q", "u", "e">>,
     <<"S", "o", "i", "n", "s", " ", "A", "u", "x", " ", "A", "n", "i", "m", "a", "u", "x">> >>

\* the connector words kept in lower case when not first (line 52)
ConnectorWords ==
  { <<"d", "e">>, <<"d", "e", "s">>, <<"d", "u">>, <<"l", "a">>, <<"l", "e">>,
    <<"l", "e", "s">>, <<"l", "'">>, <<"à">>, <<"a", "u", "x">>, <<"e", "t">>,
    <<"o", "u">>, <<"d", "'">>, <<"u", "n">>, <<"u", "n", "e">>,
    <<"p", "o", "u", "r">>, <<"a", "v", "e", "c">>, <<"s", "a", "n", "s">>,
    <<"s", "u", "r">>, <<"d", "a", "n", "s">>, <<"e", "n">>, <<"p", "a", "r">>,
    <<"e", "s", "t">>, <<"s", "o", "n", "t">> }

\* lines 40-43: drop one final 's' of a term longer than 2 not ending in 'ss'
Singularize(lower_case_skill) ==
  IF /\ EndsWith(lower_case_skill, <<"s">>)
     /\ Len(lower_case_skill) > 2
     /\ ~EndsWith(lower_case_skill, <<"s", "s">>)
  THEN SubSeq(lower_case_skill, 1, Len(lower_case_skill) - 1)
  ELSE lower_case_skill

\* lines 48-57
CapitalizeWords(words) ==
  [i \in 1..Len(words) |->
     IF i > 1 /\ Lower(words[i]) \in ConnectorWords
     THEN Lower(words[i])
     ELSE Capitalize(words[i])]

_standardize_skill_python(skill_name) ==
  LET original_stripped == Strip(skill_name)
      exact == {i \in 1..Len(ExactCasedTerms) :
                  Lower(ExactCasedTerms[i]) = Lower(original_stripped)}
  IN IF /\ IsUpper(original_stripped)
        /\ Len(original_stripped) > 1
        /\ \A i \in 1..Len(original_stripped) : original_stripped[i] # " "
     THEN original_stripped
     ELSE IF exact # {}
     THEN ExactCasedTerms[CHOOSE i \in exact : \A j \in exact : i <= j]
     ELSE JoinWords(CapitalizeWords(Split(Singularize(Lower(original_stripped)))))

(***************************************************************************)
(* Python values.  A dict is the sequence of its items [k, v] in insertion *)
(* order; a JSON object of the LLM or an offer is a record, a missing key  *)
(* being a field the record does not have; None is a record of its own.    *)
(***************************************************************************)
None == [is_none |-> TRUE]

\* bool(x) is False for None and for the empty dict
Falsy(x) == x = None \/ DOMAIN x = {}

DictHas(d, key) == \E i \in 1..Len(d) : d[i].k = key

DictGet(d, key, default) ==
  IF DictHas(d, key)
  THEN d[CHOOSE i \in 1..Len(d) : d[i].k = key].v
  ELSE default

\* d[key] = value: an existing key keeps its place, a new one comes last
DictSet(d, key, value) ==
  IF DictHas(d, key)
  THEN LET i == CHOOSE i \in 1..Len(d) : d[i].k = key
       IN SubSeq(d, 1, i - 1) \o <<[k |-> key, v |-> value]>>
            \o SubSeq(d, i + 1, Len(d))
  ELSE Append(d, [k |-> key, v |-> value])

\* defaultdict(int): d[key] += 1
DictIncrement(d, key) == DictSet(d, key, DictGet(d, key, 0) + 1)

DictKeys(d) == {d[i].k : i \in 1..Len(d)}

\* obj.get(field, default)
Get(obj, field, default) ==
  IF field \in DOMAIN obj THEN obj[field] ELSE default

Min(a, b) == IF a <= b THEN a ELSE b

(***************************************************************************)
(* The iteration order of a Python set of str depends on the hash seed of  *)
(* the process, not on the insertion order.  The set is kept as the        *)
(* sequence of its elements in insertion order; the process iterates it    *)
(* rotated by its hash seed (seed 0 is the insertion order).               *)
(***************************************************************************)
VARIABLES hashSeed

SetAdd(set, x) ==
  IF \E i \in 1..Len(set) : set[i] = x THEN set ELSE Append(set, x)

SetIterationOrder(set) ==
  IF set = <<>> THEN <<>>
  ELSE LET n == Len(set)
           r == hashSeed % n
       IN SubSeq(set, r + 1, n) \o SubSeq(set, 1, r)

(***************************************************************************)
(* _aggregate_results                                                      *)
(***************************************************************************)
\* a list in place of the set: every occurrence is kept
AddProcessedSkillToList(processed, counting_key) == Append(processed, counting_key)

\* lines 90 and 106: a skill is added to the set of its description
AddProcessedSkill(processed, counting_key) == SetAdd(processed, counting_key)

\* lines 98-101: the key under which a stripped skill is counted
CountingKey(skill_stripped) == Lower(_standardize_skill_python(skill_stripped))

\* the name is set whether or not the key has one
SetDisplayNameAlways(skill_display_names, counting_key, standardized) ==
  DictSet(skill_display_names, counting_key, standardized)

\* lines 103-104: the name of a key is set when the key has none
SetDisplayName(skill_display_names, counting_key, standardized) ==
  IF DictHas(skill_display_names, counting_key)
  THEN skill_display_names
  ELSE DictSet(skill_display_names, counting_key, standardized)

\* lines 92-106: the skills of one entry, in list order
ProcessSkill(state, skill_raw) ==
  LET skill_stripped == Strip(skill_raw)
      standardized_skill_for_display ==
        _standardize_skill_python(skill_stripped)
      counting_key == CountingKey(skill_stripped)
  IN IF skill_stripped = <<>>
     THEN state
     ELSE [skill_display_names |->
             SetDisplayName(state.skill_display_names, counting_key,
                            standardized_skill_for_display),
           processed |-> AddProcessedSkill(state.processed, counting_key)]

ProcessSkills(skills, skill_display_names, processed) ==
  LET after[i \in 0..Len(skills)] ==
        IF i = 0
        THEN [skill_display_names |-> skill_display_names,
              processed |-> processed]
        ELSE ProcessSkill(after[i - 1], skills[i])
  IN after[Len(skills)]

\* lines 108-109: one increment per key of the set, in its iteration order
IncrementAll(frequencies, keys) ==
  LET after[i \in 0..Len(keys)] ==
        IF i = 0 THEN frequencies ELSE DictIncrement(after[i - 1], keys[i])
  IN after[Len(keys)]

\* lines 111-113
NonSpecifie ==
  <<"N", "o", "n", " ", "s", "p", "é", "c", "i", "f", "i", "é">>

NonPrecise == <<"N", "o", "n", " ", "p", "r", "é", "c", "i", "s", "é">>

CountEducation(education_frequencies, data_entry) ==
  LET education_level == Get(data_entry, "education_level", NonSpecifie)
  IN IF education_level # <<>> /\ education_level # NonSpecifie
     THEN DictIncrement(education_frequencies, education_level)
     ELSE education_frequencies

\* lines 87-113: one entry of extracted_data
ProcessEntry(tables, data_entry) ==
  LET p == ProcessSkills(Get(data_entry, "skills", <<>>),
                         tables.skill_display_names, <<>>)
  IN [education_frequencies |->
        CountEducation(tables.education_frequencies, data_entry),
      skill_display_names |-> p.skill_display_names,
      skill_frequencies_normalized_key |->
        IncrementAll(tables.skill_frequencies_normalized_key,
                     SetIterationOrder(p.processed))]

ProcessEntries(tables, extracted_data) ==
  LET after[i \in 0..Len(extracted_data)] ==
        IF i = 0 THEN tables ELSE ProcessEntry(after[i - 1], extracted_data[i])
  IN after[Len(extracted_data)]

\* lines 85-86: filter(None, batch_results), then the test of the key
UsableBatch(result_batch) ==
  ~Falsy(result_batch) /\ "extracted_data" \in DOMAIN result_batch

\* TRUE; the value of x is computed here and not where x is next used, which
\* keeps the evaluation of a loop as shallow as the loop is
Evaluated(x) == x = x

\* a batch that failed discards the tallies made so far
ProcessBatchOrReset(tables, result_batch) ==
  IF Evaluated(tables) /\ ~Falsy(result_batch)
       /\ "extracted_data" \in DOMAIN result_batch
  THEN LET after[i \in 0..Len(result_batch.extracted_data)] ==
             IF i = 0 THEN tables
             ELSE ProcessEntry(after[i - 1], result_batch.extracted_data[i])
       IN after[Len(result_batch.extracted_data)]
  ELSE [skill_frequencies_normalized_key |-> <<>>,
        skill_display_names |-> <<>>,
        education_frequencies |-> <<>>]

ProcessBatch(tables, result_batch) ==
  IF Evaluated(tables) /\ UsableBatch(result_batch)
  THEN ProcessEntries(tables, result_batch.extracted_data)
  ELSE tables

ProcessBatches(tables, batch_results) ==
  LET after[i \in 0..Len(batch_results)] ==
        IF i = 0 THEN tables ELSE ProcessBatch(after[i - 1], batch_results[i])
  IN after[Len(batch_results)]

EmptyTables ==
  [skill_frequencies_normalized_key |-> <<>>,
   skill_display_names |-> <<>>,
   education_frequencies |-> <<>>]

\* lines 79-113: the three dictionaries after the loop
AggregateTables(batch_results) == ProcessBatches(EmptyTables, batch_results)

\* sorted(items, key=lambda item: item[1], reverse=True): a stable sort, so an
\* item comes after the items of higher count and the earlier ones of equal count
SortedByFrequency(items) ==
  LET n == Len(items)
      place(i) ==
        Cardinality({j \in 1..n : items[j].v > items[i].v})
          + Cardinality({j \in 1..(i - 1) : items[j].v = items[i].v}) + 1
      at == [i \in 1..n |-> place(i)]
  IN SubSeq([p \in 1..n |-> items[CHOOSE i \in 1..n : at[i] = p]], 1, n)

\* lines 117-118
TopSkills(tables) ==
  LET sorted_skills == SortedByFrequency(tables.skill_frequencies_normalized_key)
      kept == SubSeq(sorted_skills, 1, Min(Len(sorted_skills), TOP_SKILLS_LIMIT))
  IN [i \in 1..Len(kept) |->
        [skill |-> DictGet(tables.skill_display_names, kept[i].k, <<>>),
         frequency |-> kept[i].v]]

\* the last key of highest count in place of the first
TopEducationLast(education_frequencies) ==
  IF education_frequencies = <<>> THEN NonPrecise
  ELSE LET d == education_frequencies
           i == CHOOSE i \in 1..Len(d) :
                  /\ \A j \in 1..Len(d) : d[j].v <= d[i].v
                  /\ \A j \in (i + 1)..Len(d) : d[j].v < d[i].v
       IN d[i].k

\* line 121: max(d, key=d.get) is the first key of highest count
TopEducation(education_frequencies) ==
  IF education_frequencies = <<>> THEN NonPrecise
  ELSE LET d == education_frequencies
           i == CHOOSE i \in 1..Len(d) :
                  /\ \A j \in 1..Len(d) : d[j].v <= d[i].v
                  /\ \A j \in 1..(i - 1) : d[j].v < d[i].v
       IN d[i].k

\* lines 115-123: the returned dictionary, from the three dictionaries
AggregatedData(tables) ==
  [skills |-> TopSkills(tables),
   top_diploma |-> TopEducation(tables.education_frequencies)]

_aggregate_results(batch_results) ==
  AggregatedData(AggregateTables(batch_results))

(***************************************************************************)
(* Inputs of the aggregation: what the extraction calls of one run can     *)
(* return.  An entry is the JSON object of one description.                *)
(***************************************************************************)
sSQL == <<"S", "Q", "L">>
ssql == <<"s", "q", "l">>
sPython == <<"P", "y", "t", "h", "o", "n">>
spython == <<"p", "y", "t", "h", "o", "n">>
sAWS == <<"A", "W", "S">>
saws == <<"a", "w", "s">>
sBlank == <<" ", " ">>
sPowerBi == <<"p", "o", "w", "e", "r", " ", "b", "i">>
sGestion ==
  <<" ", "G", "e", "s", "t", "i", "o", "n", " ", "d", "e", " ",
    "p", "r", "o", "j", "e", "t", "s", " ">>

eBac2 == <<"B", "a", "c", "+", "2">>
eLicence == <<"L", "i", "c", "e", "n", "c", "e">>
eMaster == <<"M", "a", "s", "t", "e", "r">>

WideLetters == <<"a", "b", "c", "d", "e">>

\* the entry of description i of a batch whose descriptions name five skills each
WideEntry(i) ==
  [index |-> i - 1,
   skills |-> [j \in 1..Len(WideLetters) |-> <<WideLetters[i], WideLetters[j]>>],
   education_level |-> eLicence]

NoKeyBatch == [skills |-> <<[skill |-> ssql, frequency |-> 2]>>]

EmptyDataBatch == [extracted_data |-> <<>>]

DupBatch ==
  [extracted_data |->
     <<[index |-> 0, skills |-> <<sSQL, ssql, sSQL>>,
        education_level |-> eMaster],
       [index |-> 1, skills |-> <<sPython, sSQL>>,
        education_level |-> eMaster]>>]

MixedBatch ==
  [extracted_data |->
     <<[index |-> 0, skills |-> <<sAWS, saws, spython>>,
        education_level |-> NonSpecifie],
       [index |-> 1, skills |-> <<sBlank>>,
        education_level |-> eBac2],
       [index |-> 7, skills |-> <<sGestion, sPowerBi, sPython, ssql>>],
       [index |-> 7, education_level |-> <<>>]>>]

WideBatch ==
  [extracted_data |-> [i \in 1..GEMINI_BATCH_SIZE |-> WideEntry(i)]]

WideTailBatch ==
  [extracted_data |-> <<WideEntry(5), WideEntry(4)>>]

BatchPool ==
  {None, NoKeyBatch, DupBatch, MixedBatch, WideBatch, WideTailBatch}

SeqsUpTo(S, n) == UNION {[1..m -> S] : m \in 0..n}

(***************************************************************************)
(* The aggregation applied to one list of batch results.                   *)
(***************************************************************************)
VARIABLES agg_input, agg_tables, agg_result, agg_pc

aggVars == <<agg_input, agg_tables, agg_result, agg_pc>>

\* cache_manager.py: the client of the process and the store behind it, with
\* the last call made on the cache and what the calls so far have written
VARIABLES redis_client, redis_store,
          cache_call, cache_added, cache_stored, cache_ever

cacheVars ==
  <<redis_client, redis_store, cache_call, cache_added, cache_stored,
    cache_ever>>

\* the process environment, the module-level Gemini model, the calls of
\* get_skills_for_job in progress (one per caller) and their number so far
VARIABLES environ, model, runs, started

pipeVars == <<environ, model, runs, started>>

\* app.py: the registry of the searches in flight, the futures created for
\* it, the invocations of handle_analysis_click and the number of clicks
VARIABLES _active_searches, futures, handlers, clicks

appVars == <<_active_searches, futures, handlers, clicks>>

\* france_travail_api.py: one FranceTravailClient instance, the clock, and
\* the call of search_offers_async in progress or last made on it
VARIABLES ft_client, ft_now, ft_call

ftVars == <<ft_client, ft_now, ft_call>>

\* one application of a function without state: its arguments, its value
VARIABLES pure_in, pure_out

pureVars == <<pure_in, pure_out>>

restVars == <<ftVars, pureVars>>

vars == <<hashSeed, aggVars, cacheVars, pipeVars, appVars, restVars>>

AggIdle ==
  /\ agg_input = <<>>
  /\ agg_tables = EmptyTables
  /\ agg_result = None
  /\ agg_pc = "idle"

NoCall == [op |-> "none"]

CacheIdle ==
  /\ redis_client = None
  /\ redis_store = <<>>
  /\ cache_call = NoCall
  /\ cache_added = <<>>
  /\ cache_stored = <<>>
  /\ cache_ever = {}

Callers == {1, 2}

\* a call of get_skills_for_job: where it stands, its locals, what it
\* returned, the calls it has made on its collaborators, how many postings
\* the search returned, with a description or not, and what became of the
\* cache entry it wrote ("stored" until Redis drops it, "gone" when the write
\* failed or the entry has expired), and how many extraction calls have
\* returned to it
IdleRun ==
  [pc |-> "idle", job_title |-> <<>>, found |-> None, all_offers |-> <<>>,
   batch_results |-> <<>>, returned |-> None,
   searches |-> 0, extractions |-> 0, cache_writes |-> 0,
   postings |-> 0, described |-> 0, failed_batches |-> 0, entry |-> "none",
   calls |-> 0]

PipeIdle ==
  /\ environ = [GOOGLE_CREDENTIALS |-> "unset", FT_CLIENT_ID |-> FALSE,
                REDIS_URL |-> "unset"]
  /\ model = None
  /\ runs = [c \in Callers |-> IdleRun]
  /\ started = 0

HandlerSlots == {1, 2, 3}

\* an invocation of handle_analysis_click: where it stands, its locals (what
\* the user typed is kept while the handler runs), how it ended, and the
\* future it found registered when it was turned away
IdleHandler ==
  [pc |-> "idle", original_job_term |-> <<>>, normalized_job_term |-> <<>>,
   search_future |-> 0, outcome |-> "none", found_future |-> 0]

AppIdle ==
  /\ _active_searches = <<>>
  /\ futures = <<>>
  /\ handlers = [h \in HandlerSlots |-> IdleHandler]
  /\ clicks = 0

\* a client just constructed, and no call made on it
\* (with, for the token held, when it was issued and the expires_in applied)
NewClient ==
  [_access_token |-> None, _token_expiry_time |-> None, issue |-> None]

\* a datetime, in seconds since the client was made
Datetime(seconds) == [seconds |-> seconds]

NoSearch ==
  [pc |-> "idle", n |-> 0, returned |-> None, token_requests |-> 0,
   search_requests |-> 0, token_response |-> "none",
   search_response |-> "none"]

FtIdle ==
  /\ ft_client = NewClient
  /\ ft_now = 0
  /\ ft_call = NoSearch

PureIdle ==
  /\ pure_in = None
  /\ pure_out = None

RestIdle == FtIdle /\ PureIdle

InitAgg ==
  /\ hashSeed \in 0..MaxHashSeed
  /\ agg_input \in SeqsUpTo(BatchPool, MaxBatches)
  /\ agg_tables = EmptyTables
  /\ agg_result = None
  /\ agg_pc = "input"
  /\ CacheIdle
  /\ PipeIdle
  /\ AppIdle
  /\ RestIdle

Aggregate ==
  /\ agg_pc = "input"
  /\ agg_tables' = AggregateTables(agg_input)
  /\ agg_result' = AggregatedData(agg_tables')
  /\ agg_pc' = "done"
  /\ UNCHANGED <<agg_input, hashSeed, cacheVars, pipeVars, appVars, restVars>>

NextAgg == Aggregate

SpecAgg == InitAgg /\ [][NextAgg]_vars

(***************************************************************************)
(* What the aggregation is measured against: the descriptions that were    *)
(* analysed and the keys their skill lists name.                           *)
(***************************************************************************)
\* the positions <<batch, entry>> of the entries the aggregation reads
EntriesOf(batch_results) ==
  {<<b, e>> \in (1..Len(batch_results)) \X (1..GEMINI_BATCH_SIZE) :
     /\ UsableBatch(batch_results[b])
     /\ e <= Len(batch_results[b].extracted_data)}

SkillsAt(batch_results, pos) ==
  Get(batch_results[pos[1]].extracted_data[pos[2]], "skills", <<>>)

\* the positions of the skill list at pos whose string is counted under key
Mentions(batch_results, pos, key) ==
  LET skills == SkillsAt(batch_results, pos)
  IN {j \in 1..Len(skills) :
        Strip(skills[j]) # <<>> /\ CountingKey(Strip(skills[j])) = key}

\* the pairs <<entry position, key>> such that the skill list of the entry has
\* a string counted under the key
Namings(batch_results) ==
  UNION {LET skills == SkillsAt(batch_results, pos)
         IN {<<pos, CountingKey(Strip(skills[j]))>> :
               j \in {j \in 1..Len(skills) : Strip(skills[j]) # <<>>}} :
         pos \in EntriesOf(batch_results)}

\* the number of entries whose skill list names key at least once
EntriesNaming(namings, key) ==
  Cardinality({n \in namings : n[2] = key})

\* a dict as the set of its items, without their order
Items(d) == {<<d[i].k, d[i].v>> : i \in 1..Len(d)}

Reversed(s) == [i \in 1..Len(s) |-> s[Len(s) + 1 - i]]

Swapped(s, i) ==
  [j \in 1..Len(s) |-> IF j = i THEN s[i + 1] ELSE IF j = i + 1 THEN s[i] ELSE s[j]]

\* C1: the frequency of every counted skill, in the table and in the returned
\* list, is the number of entries whose skill list names its counting key at
\* least once; an entry that repeats a skill adds exactly 1.
TheoremC1 ==
  agg_pc = "done" =>
    LET namings == Namings(agg_input)
    IN /\ \A i \in 1..Len(agg_tables.skill_frequencies_normalized_key) :
            LET item == agg_tables.skill_frequencies_normalized_key[i]
            IN item.v = EntriesNaming(namings, item.k)
       /\ \A i \in 1..Len(agg_result.skills) :
            agg_result.skills[i].frequency
              = EntriesNaming(namings, Lower(agg_result.skills[i].skill))

\* an entry names a returned skill at two places of its list
WitnessC1 ==
  /\ agg_pc = "done"
  /\ \E i \in 1..Len(agg_result.skills) :
       \E pos \in EntriesOf(agg_input) :
         Cardinality(Mentions(agg_input, pos, Lower(agg_result.skills[i].skill))) >= 2

\* C2: the skill frequency table is the same for every ordering of the batch
\* results: for the reversed list and for every exchange of two neighbours
\* (every permutation is a product of such exchanges, and the lists checked are
\* closed under them).
TheoremC2 ==
  agg_pc = "done" =>
    /\ Items(AggregateTables(Reversed(agg_input)).skill_frequencies_normalized_key)
         = Items(agg_tables.skill_frequencies_normalized_key)
    /\ \A i \in 1..(Len(agg_input) - 1) :
         Items(AggregateTables(Swapped(agg_input, i)).skill_frequencies_normalized_key)
           = Items(agg_tables.skill_frequencies_normalized_key)

\* two usable batches and a failed one, whose reversal changes the insertion
\* order of the table and the display names
WitnessC2 ==
  /\ agg_pc = "done"
  /\ \E b \in 1..Len(agg_input) : agg_input[b] = None
  /\ Cardinality({b \in 1..Len(agg_input) : UsableBatch(agg_input[b])}) >= 2
  /\ AggregateTables(Reversed(agg_input)).skill_frequencies_normalized_key
       # agg_tables.skill_frequencies_normalized_key

\* the place of a counting key in the order of first sight (skill_display_names
\* is filled in batch order, entry order and list order)
FirstSeen(key) ==
  CHOOSE i \in 1..Len(agg_tables.skill_display_names) :
    agg_tables.skill_display_names[i].k = key

\* C3: the returned list has min(TOP_SKILLS_LIMIT, number of keys) skills of
\* non-increasing frequency, no skill left out is more frequent than a skill
\* kept, and skills of equal frequency are in the order of first sight.
ClaimC3 ==
  agg_pc = "done" =>
    LET skills == agg_result.skills
        table == agg_tables.skill_frequencies_normalized_key
        kept == {Lower(skills[i].skill) : i \in 1..Len(skills)}
    IN /\ Len(skills) = Min(TOP_SKILLS_LIMIT, Len(table))
       /\ \A i \in 1..(Len(skills) - 1) :
            skills[i].frequency >= skills[i + 1].frequency
       /\ \A i \in 1..Len(table) :
            table[i].k \notin kept =>
              \A j \in 1..Len(skills) : table[i].v <= skills[j].frequency
       /\ \A i, j \in 1..Len(skills) :
            (i < j /\ skills[i].frequency = skills[j].frequency) =>
              FirstSeen(Lower(skills[i].skill)) < FirstSeen(Lower(skills[j].skill))

(***************************************************************************)
(* json.dumps(results, ensure_ascii=False) and json.loads.  A JSON text is *)
(* the sequence of its tokens: punctuation, string literals (with " and \  *)
(* escaped; the name of a member is kept whole, being a field name) and    *)
(* numbers in decimal digits.                                              *)
(***************************************************************************)
DigitChars == <<"0", "1", "2", "3", "4", "5", "6", "7", "8", "9">>

RECURSIVE Digits(_)
Digits(n) ==
  IF n < 10 THEN <<DigitChars[n + 1]>>
  ELSE Append(Digits(n \div 10), DigitChars[(n % 10) + 1])

DigitValue(c) == CHOOSE d \in 0..9 : DigitChars[d + 1] = c

RECURSIVE Number(_)
Number(digits) ==
  IF digits = <<>> THEN 0
  ELSE 10 * Number(SubSeq(digits, 1, Len(digits) - 1))
         + DigitValue(digits[Len(digits)])

RECURSIVE Escape(_)
Escape(s) ==
  IF s = <<>> THEN <<>>
  ELSE (IF Head(s) \in {"\"", "\\"} THEN <<"\\", Head(s)>> ELSE <<Head(s)>>)
         \o Escape(Tail(s))

RECURSIVE Unescape(_)
Unescape(s) ==
  IF s = <<>> THEN <<>>
  ELSE IF Head(s) = "\\" /\ Len(s) >= 2
       THEN <<s[2]>> \o Unescape(SubSeq(s, 3, Len(s)))
       ELSE <<Head(s)>> \o Unescape(Tail(s))

Punct(c) == [t |-> c]
Member(name) == [t |-> "str", v |-> name]
DumpStr(s) == [t |-> "str", v |-> Escape(s)]
DumpInt(n) == [t |-> "int", v |-> Digits(n)]

RECURSIVE JoinTokens(_, _)
JoinTokens(parts, separator) ==
  IF parts = <<>> THEN <<>>
  ELSE IF Len(parts) = 1 THEN parts[1]
  ELSE parts[1] \o <<separator>> \o JoinTokens(Tail(parts), separator)

DumpList(parts) ==
  <<Punct("[")>> \o JoinTokens(parts, Punct(",")) \o <<Punct("]")>>

DumpSkill(item) ==
  <<Punct("{"), Member("skill"), Punct(":"), DumpStr(item.skill), Punct(","),
    Member("frequency"), Punct(":"), DumpInt(item.frequency), Punct("}")>>

\* the members in the insertion order of the dict (pipeline.py, final_result)
json_dumps(results) ==
  <<Punct("{"), Member("skills"), Punct(":")>>
    \o DumpList([i \in 1..Len(results.skills) |-> DumpSkill(results.skills[i])])
    \o <<Punct(","), Member("top_diploma"), Punct(":"),
         DumpStr(results.top_diploma), Punct(","),
         Member("actual_offers_count"), Punct(":"),
         DumpInt(results.actual_offers_count), Punct("}")>>

JSONDecodeError == [ok |-> FALSE]

Parsed(value, next) == [ok |-> TRUE, value |-> value, next |-> next]

TokenAt(toks, i, t) == i <= Len(toks) /\ toks[i].t = t

RECURSIVE ParseValue(_, _), ParseItems(_, _, _), ParseMembers(_, _, _)
ParseValue(toks, i) ==
  IF i > Len(toks) THEN JSONDecodeError
  ELSE CASE toks[i].t = "int" -> Parsed(Number(toks[i].v), i + 1)
         [] toks[i].t = "str" -> Parsed(Unescape(toks[i].v), i + 1)
         [] toks[i].t = "[" ->
              IF TokenAt(toks, i + 1, "]") THEN Parsed(<<>>, i + 2)
              ELSE ParseItems(toks, i + 1, <<>>)
         [] toks[i].t = "{" ->
              IF TokenAt(toks, i + 1, "}") THEN Parsed(<<>>, i + 2)
              ELSE ParseMembers(toks, i + 1, <<>>)
         [] OTHER -> JSONDecodeError

ParseItems(toks, i, items) ==
  LET item == ParseValue(toks, i)
  IN IF ~item.ok THEN JSONDecodeError
     ELSE IF TokenAt(toks, item.next, ",")
          THEN ParseItems(toks, item.next + 1, Append(items, item.value))
     ELSE IF TokenAt(toks, item.next, "]")
          THEN Parsed(Append(items, item.value), item.next + 1)
     ELSE JSONDecodeError

\* a name given twice keeps the last value
ParseMembers(toks, i, object) ==
  IF ~(TokenAt(toks, i, "str") /\ TokenAt(toks, i + 1, ":"))
  THEN JSONDecodeError
  ELSE LET member == ParseValue(toks, i + 2)
       IN IF ~member.ok THEN JSONDecodeError
          ELSE LET extended == (toks[i].v :> member.value) @@ object
               IN IF TokenAt(toks, member.next, ",")
                  THEN ParseMembers(toks, member.next + 1, extended)
                  ELSE IF TokenAt(toks, member.next, "}")
                       THEN Parsed(extended, member.next + 1)
                       ELSE JSONDecodeError

json_loads(text) ==
  LET parsed == ParseValue(text, 1)
  IN IF parsed.ok /\ parsed.next = Len(text) + 1 THEN parsed
     ELSE JSONDecodeError

(***************************************************************************)
(* cache_manager.py.  redis_client is None when REDIS_URL is missing or    *)
(* the ping at start-up failed.  The store maps a key to the text written  *)
(* by SETEX and its time to live; a call on the client can raise           *)
(* (redis_error), which every function of the module catches.              *)
(***************************************************************************)
CACHE_TTL_SECONDS == 30 * 24 * 60 * 60

RedisClient == [decode_responses |-> TRUE]

\* the outcomes a call made with this client can have
\* REDIS_URL: not set, the URL of a server that does not answer the ping, the
\* URL of a server that does
RedisUrls == {"unset", "unreachable", "reachable"}

\* except Exception: the client made by from_url is kept
initialize_redis_keeps_client(client, redis_url) ==
  IF client # None THEN client
  ELSE IF redis_url = "unset" THEN None
  ELSE RedisClient

\* redis_client after initialize_redis
initialize_redis(client, redis_url) ==
  IF client # None THEN client
  ELSE IF redis_url = "unset" THEN None
  ELSE IF redis_url = "unreachable" THEN None
  ELSE RedisClient

RedisErrors == IF redis_client = None THEN {FALSE} ELSE BOOLEAN

StoreWithout(store, cache_key) ==
  [k \in (DOMAIN store) \ {cache_key} |-> store[k]]

\* no except clause: what Redis holds is parsed whether or not the read
\* failed
get_cached_results_unguarded(cache_key, redis_error) ==
  IF redis_client = None THEN None
  ELSE IF cache_key \in DOMAIN redis_store
            /\ redis_store[cache_key].value # <<>>
       THEN LET loaded == json_loads(redis_store[cache_key].value)
            IN IF loaded.ok THEN loaded.value ELSE None
       ELSE None

\* the value get_cached_results returns
get_cached_results(cache_key, redis_error) ==
  IF redis_client = None THEN None
  ELSE IF redis_error THEN None
  ELSE IF cache_key \in DOMAIN redis_store
            /\ redis_store[cache_key].value # <<>>
       THEN LET loaded == json_loads(redis_store[cache_key].value)
            IN IF loaded.ok THEN loaded.value ELSE None
       ELSE None

\* SET with NX in place of SETEX: a key already stored keeps its value
add_to_cache_nx(cache_key, results, redis_error) ==
  IF redis_client = None \/ redis_error \/ cache_key \in DOMAIN redis_store
  THEN redis_store
  ELSE (cache_key :> [value |-> json_dumps(results),
                      ttl |-> CACHE_TTL_SECONDS]) @@ redis_store

\* the store after add_to_cache
add_to_cache(cache_key, results, redis_error) ==
  IF redis_client = None THEN redis_store
  ELSE IF redis_error THEN redis_store
  ELSE (cache_key :> [value |-> json_dumps(results),
                      ttl |-> CACHE_TTL_SECONDS]) @@ redis_store

\* the store after delete_from_cache
delete_from_cache(cache_key, redis_error) ==
  IF redis_client = None THEN redis_store
  ELSE IF redis_error THEN redis_store
  ELSE StoreWithout(redis_store, cache_key)

\* return True after the except clause as well
flush_all_cache_always_true(redis_error) ==
  IF redis_client = None THEN [store |-> redis_store, returned |-> FALSE]
  ELSE IF redis_error THEN [store |-> redis_store, returned |-> TRUE]
  ELSE [store |-> <<>>, returned |-> TRUE]

\* the store after flush_all_cache, and what the function returns
flush_all_cache(redis_error) ==
  IF redis_client = None THEN [store |-> redis_store, returned |-> FALSE]
  ELSE IF redis_error THEN [store |-> redis_store, returned |-> FALSE]
  ELSE [store |-> <<>>, returned |-> TRUE]

(***************************************************************************)
(* Calls on the cache: keys as get_skills_for_job builds them and results  *)
(* of the shape it stores.                                                 *)
(***************************************************************************)
NB_OFFERS_TO_ANALYZE == 100

\* f"{job_title}@{num_offers}"
CacheKey(job_title, num_offers) == job_title \o <<"@">> \o Digits(num_offers)

\* the number of postings asked for in place of the number fetched
FinalResultRequested(aggregated_skills, all_offers) ==
  [skills |-> aggregated_skills.skills,
   top_diploma |-> aggregated_skills.top_diploma,
   actual_offers_count |-> NB_OFFERS_TO_ANALYZE]

\* final_result of get_skills_for_job
FinalResult(aggregated_skills, all_offers) ==
  [skills |-> aggregated_skills.skills,
   top_diploma |-> aggregated_skills.top_diploma,
   actual_offers_count |-> Len(all_offers)]

tDev == <<"d", "e", "v">>
tChef == <<"c", "h", "e", "f">>

JobTitles == {tDev, tChef}

CacheKeyPool == {CacheKey(job_title, NB_OFFERS_TO_ANALYZE) : job_title \in JobTitles}

QuotedResult ==
  [skills |-> <<[skill |-> <<"C", "\"", "\\">>, frequency |-> 100],
                [skill |-> sSQL, frequency |-> 7]>>,
   top_diploma |-> eMaster,
   actual_offers_count |-> 120]

EmptyResult ==
  [skills |-> <<>>, top_diploma |-> NonPrecise, actual_offers_count |-> 0]

ResultPool ==
  {QuotedResult, EmptyResult,
   FinalResult(_aggregate_results(<<MixedBatch, DupBatch>>), <<1, 2, 3, 4, 5, 6>>)}

Call(op, cache_key, returned, redis_error) ==
  [op |-> op, cache_key |-> cache_key, returned |-> returned,
   redis_error |-> redis_error]

\* what the calls so far have written, once the entry of the key is gone
Forget(written, cache_key) == StoreWithout(written, cache_key)

\* what a Redis server that does not answer at start-up may hold from an
\* earlier process
LeftOver ==
  (CacheKey(tDev, NB_OFFERS_TO_ANALYZE)
     :> [value |-> json_dumps(QuotedResult), ttl |-> CACHE_TTL_SECONDS])
  @@ <<>>

\* texts that are not JSON: a document cut short, two documents in a row
CutShort == SubSeq(json_dumps(QuotedResult), 1, 4)

ExtraData == json_dumps(EmptyResult) \o json_dumps(EmptyResult)

CorruptTexts == {CutShort, ExtraData}

\* an entry another writer left under a key of the application
Corrupted(text) ==
  (CacheKey(tChef, NB_OFFERS_TO_ANALYZE)
     :> [value |-> text, ttl |-> CACHE_TTL_SECONDS])
  @@ <<>>

InitCache ==
  /\ hashSeed \in 0..MaxHashSeed
  /\ AggIdle
  /\ environ \in [GOOGLE_CREDENTIALS : {"unset"}, FT_CLIENT_ID : {FALSE},
                  REDIS_URL : RedisUrls]
  /\ model = None
  /\ runs = [c \in Callers |-> IdleRun]
  /\ started = 0
  /\ AppIdle
  /\ RestIdle
  /\ redis_client = initialize_redis(None, environ.REDIS_URL)
  /\ redis_store \in
       IF environ.REDIS_URL = "unreachable" THEN {<<>>, LeftOver}
       ELSE IF environ.REDIS_URL = "reachable"
       THEN {<<>>} \cup {Corrupted(text) : text \in CorruptTexts}
       ELSE {<<>>}
  /\ cache_call = NoCall
  /\ cache_added = <<>>
  /\ cache_stored = <<>>
  /\ cache_ever = {}

AddToCache(cache_key, results) ==
  \E redis_error \in RedisErrors :
    LET written == redis_client # None /\ ~redis_error
    IN /\ redis_store' = add_to_cache(cache_key, results, redis_error)
       /\ cache_call' = Call("add_to_cache", cache_key, None, redis_error)
       /\ cache_added' = (cache_key :> results) @@ cache_added
       /\ cache_stored' = IF written
                          THEN (cache_key :> results) @@ cache_stored
                          ELSE cache_stored
       /\ cache_ever' = cache_ever \cup {cache_key}
       /\ UNCHANGED <<redis_client, hashSeed, aggVars, pipeVars, appVars, restVars>>

GetCachedResults(cache_key) ==
  \E redis_error \in RedisErrors :
    /\ cache_call' = Call("get_cached_results", cache_key,
                          get_cached_results(cache_key, redis_error),
                          redis_error)
    /\ UNCHANGED <<redis_client, redis_store, cache_added, cache_stored,
                   cache_ever, hashSeed, aggVars, pipeVars, appVars, restVars>>

DeleteFromCache(cache_key) ==
  \E redis_error \in RedisErrors :
    LET deleted == redis_client # None /\ ~redis_error
    IN /\ redis_store' = delete_from_cache(cache_key, redis_error)
       /\ cache_call' = Call("delete_from_cache", cache_key, None, redis_error)
       /\ cache_added' = IF deleted THEN Forget(cache_added, cache_key)
                         ELSE cache_added
       /\ cache_stored' = IF deleted THEN Forget(cache_stored, cache_key)
                          ELSE cache_stored
       /\ UNCHANGED <<redis_client, cache_ever, hashSeed, aggVars, pipeVars,
                      appVars, restVars>>

FlushAllCache ==
  \E redis_error \in RedisErrors :
    LET flushed == flush_all_cache(redis_error)
    IN /\ redis_store' = flushed.store
       /\ cache_call' = Call("flush_all_cache", <<>>, flushed.returned,
                             redis_error)
       /\ cache_added' = IF flushed.returned THEN <<>> ELSE cache_added
       /\ cache_stored' = IF flushed.returned THEN <<>> ELSE cache_stored
       /\ UNCHANGED <<redis_client, cache_ever, hashSeed, aggVars, pipeVars,
                      appVars, restVars>>

\* Redis drops an entry when its time to live has run out
Expire(cache_key) ==
  /\ cache_key \in DOMAIN redis_store
  /\ redis_store' = StoreWithout(redis_store, cache_key)
  /\ cache_call' = Call("expire", cache_key, None, FALSE)
  /\ cache_added' = Forget(cache_added, cache_key)
  /\ cache_stored' = Forget(cache_stored, cache_key)
  /\ runs' = [c \in Callers |->
               IF runs[c].entry = "stored"
                    /\ CacheKey(runs[c].job_title, NB_OFFERS_TO_ANALYZE)
                         = cache_key
               THEN [runs[c] EXCEPT !.entry = "gone"]
               ELSE runs[c]]
  /\ UNCHANGED <<redis_client, cache_ever, hashSeed, aggVars, environ, model,
                 started, appVars, restVars>>

NextCache ==
  \/ \E cache_key \in CacheKeyPool, results \in ResultPool :
       AddToCache(cache_key, results)
  \/ \E cache_key \in CacheKeyPool : GetCachedResults(cache_key)
  \/ \E cache_key \in CacheKeyPool : DeleteFromCache(cache_key)
  \/ FlushAllCache
  \/ \E cache_key \in CacheKeyPool : Expire(cache_key)

SpecCache == InitCache /\ [][NextCache]_vars

\* C10: after add_to_cache(key, result), get_cached_results(key) returns a
\* value equal to result until the entry expires, is deleted or the cache is
\* flushed, and get_cached_results of a key never set returns None.
ClaimC10 ==
  cache_call.op = "get_cached_results" =>
    /\ cache_call.cache_key \in DOMAIN cache_added =>
         cache_call.returned = cache_added[cache_call.cache_key]
    /\ cache_call.cache_key \notin cache_ever => cache_call.returned = None

\* C10 (amended): when the Redis client is initialised and neither the write
\* nor the read hits a store error, get_cached_results(key) returns a value
\* equal to the result of the latest add_to_cache(key, result) until the entry
\* expires, is deleted or the cache is flushed; in every case
\* get_cached_results of a key never set returns None.
TheoremC10 ==
  cache_call.op = "get_cached_results" =>
    /\ (redis_client # None /\ ~cache_call.redis_error
          /\ cache_call.cache_key \in DOMAIN cache_stored) =>
         cache_call.returned = cache_stored[cache_call.cache_key]
    /\ cache_call.cache_key \notin cache_ever => cache_call.returned = None

WitnessC10 ==
  /\ cache_call.op = "get_cached_results"
  /\ redis_client # None
  /\ ~cache_call.redis_error
  /\ cache_call.cache_key \in DOMAIN cache_stored
  /\ cache_call.returned = QuotedResult
  /\ \E other \in cache_ever : other # cache_call.cache_key

(***************************************************************************)
(* get_skills_for_job (pipeline.py) with its collaborators: the Gemini     *)
(* client (gemini_extractor.py) and the France Travail client              *)
(* (france_travail_api.py).  A call is cut at its awaits: the search, each *)
(* extraction call of the gather, and the return of the gather.            *)
(***************************************************************************)
MaxRuns == 2

GenerativeModel == [model_name |-> "gemini"]

\* initialize_gemini: what it returns and the module-level model afterwards
initialize_gemini ==
  IF model # None THEN [returned |-> TRUE, model |-> model]
  ELSE IF environ.GOOGLE_CREDENTIALS = "unset"
       THEN [returned |-> FALSE, model |-> None]
  ELSE IF environ.GOOGLE_CREDENTIALS = "invalid"
       THEN [returned |-> FALSE, model |-> None]
  ELSE [returned |-> TRUE, model |-> GenerativeModel]

\* FranceTravailClient(logger=logger) raises ValueError without credentials
FranceTravailClientRaises == ~environ.FT_CLIENT_ID

\* the text of the LLM answer whose JSON value is the batch
DumpEntry(entry) ==
  LET index == IF "index" \in DOMAIN entry
               THEN <<<<Member("index"), Punct(":"), DumpInt(entry.index)>>>>
               ELSE <<>>
      skills == IF "skills" \in DOMAIN entry
                THEN <<<<Member("skills"), Punct(":")>>
                         \o DumpList([i \in 1..Len(entry.skills) |->
                                        <<DumpStr(entry.skills[i])>>])>>
                ELSE <<>>
      level == IF "education_level" \in DOMAIN entry
               THEN <<<<Member("education_level"), Punct(":"),
                        DumpStr(entry.education_level)>>>>
               ELSE <<>>
  IN <<Punct("{")>> \o JoinTokens(index \o skills \o level, Punct(","))
       \o <<Punct("}")>>

ResponseText(batch) ==
  IF "extracted_data" \in DOMAIN batch
  THEN <<Punct("{"), Member("extracted_data"), Punct(":")>>
         \o DumpList([i \in 1..Len(batch.extracted_data) |->
                        DumpEntry(batch.extracted_data[i])])
         \o <<Punct("}")>>
  ELSE <<Punct("{"), Member("skills"), Punct(":")>>
         \o DumpList([i \in 1..Len(batch.skills) |-> DumpSkill(batch.skills[i])])
         \o <<Punct("}")>>

\* an answer cut before its end
TruncatedText == SubSeq(ResponseText(DupBatch), 1, 9)

\* what model.generate_content_async does: it raises, or answers a text
Responses ==
  {[raised |-> TRUE, text |-> <<>>]}
    \cup {[raised |-> FALSE, text |-> text] :
            text \in {TruncatedText, ResponseText(NoKeyBatch),
                      ResponseText(EmptyDataBatch), ResponseText(DupBatch)}}

\* the value extract_skills_with_gemini returns
extract_skills_with_gemini(response) ==
  IF response.raised THEN None
  ELSE LET skills_json == json_loads(response.text)
       IN IF skills_json.ok THEN skills_json.value ELSE None

\* the dict search_offers_async makes of one result of the API
Offer(description) ==
  [titre |-> tDev, entreprise |-> <<"x">>, url |-> <<"#">>,
   description |-> description]

Described(i) == Offer(<<"d", DigitChars[i + 1]>>)

NoOffers == <<>>

UndescribedOffers == <<Offer(<<>>), Offer(<<>>)>>

SevenOffers ==
  <<Described(1), Described(2), Offer(<<>>), Described(3), Described(4),
    Described(5), Described(6)>>

OneOffer == <<Described(1)>>

OfferLists == {NoOffers, UndescribedOffers, OneOffer, SevenOffers}

Truthy(description) == description # <<>>

\* [offer['description'] for offer in all_offers if offer.get('description')]
DescriptionsUnfiltered(all_offers) ==
  [i \in 1..Len(all_offers) |-> all_offers[i].description]

Descriptions(all_offers) ==
  LET kept == SelectSeq(all_offers, LAMBDA offer : Truthy(offer.description))
  IN [i \in 1..Len(kept) |-> kept[i].description]

\* the chunks of full size only
_chunk_list_full_only(data, chunk_size) ==
  [k \in 1..(Len(data) \div chunk_size) |->
     SubSeq(data, (k - 1) * chunk_size + 1, k * chunk_size)]

_chunk_list(data, chunk_size) ==
  LET starts == {i \in 0..(Len(data) - 1) : i % chunk_size = 0}
  IN [k \in 1..Cardinality(starts) |->
        SubSeq(data, (k - 1) * chunk_size + 1,
               Min(k * chunk_size, Len(data)))]

Pending == [pending |-> TRUE]

\* a call that returned None is made again
AwaitedOrFailed(result_batch) ==
  result_batch = Pending \/ result_batch = None

\* asyncio.gather awaits each call once: a call that has returned is done
Awaited(result_batch) ==
  result_batch = Pending

\* if cached_results: never taken
CacheHitIgnored(cached_results) == FALSE

\* if cached_results:
CacheHit(cached_results) == ~Falsy(cached_results)

\* the locals of a call end with it
Return(run, value) ==
  [run EXCEPT !.pc = "returned", !.returned = value,
              !.all_offers = <<>>, !.batch_results = <<>>]

Raise(run) ==
  [run EXCEPT !.pc = "raised", !.all_offers = <<>>, !.batch_results = <<>>]

\* every batch must have answered: one failed batch gives up the run
RunResultAllOrNothing(all_offers, batch_results) ==
  LET aggregated_data == _aggregate_results(batch_results)
  IN IF aggregated_data.skills = <<>>
          \/ \E i \in 1..Len(batch_results) : ~UsableBatch(batch_results[i])
     THEN None
     ELSE FinalResult(aggregated_data, all_offers)

\* if not aggregated_data.get("skills"): never taken
NoSkillsIgnored(aggregated_data) == FALSE

\* if not aggregated_data.get("skills"):
NoSkills(aggregated_data) == aggregated_data.skills = <<>>

\* what get_skills_for_job returns once the gather has returned
RunResult(all_offers, batch_results) ==
  LET aggregated_data == _aggregate_results(batch_results)
  IN IF NoSkills(aggregated_data) THEN None
     ELSE FinalResult(aggregated_data, all_offers)

\* a batch the aggregation leaves out: the call returned None, or a JSON
\* value without the key extracted_data
FailedBatch(result_batch) == ~UsableBatch(result_batch)

InitPipeline ==
  /\ hashSeed \in 0..MaxHashSeed
  /\ AggIdle
  /\ environ \in [GOOGLE_CREDENTIALS : {"unset", "invalid", "valid"},
                  FT_CLIENT_ID : BOOLEAN,
                  REDIS_URL : {"unset", "reachable"}]
  /\ redis_client = initialize_redis(None, environ.REDIS_URL)
  /\ redis_store = <<>>
  /\ cache_call = NoCall
  /\ cache_added = <<>>
  /\ cache_stored = <<>>
  /\ cache_ever = {}
  /\ model = None
  /\ runs = [c \in Callers |-> IdleRun]
  /\ started = 0
  /\ AppIdle
  /\ RestIdle

\* get_skills_for_job up to the await of the search
StartRun(c, job_title) ==
  /\ started < MaxRuns
  /\ runs[c].pc \in {"idle", "returned", "raised"}
  /\ started' = started + 1
  /\ \E redis_error \in RedisErrors :
       LET cache_key == CacheKey(job_title, NB_OFFERS_TO_ANALYZE)
           cached_results == get_cached_results(cache_key, redis_error)
           gemini == initialize_gemini
           run == [IdleRun EXCEPT !.job_title = job_title,
                                  !.found = cached_results]
       IN IF CacheHit(cached_results)
          THEN /\ runs' = [runs EXCEPT ![c] = Return(run, cached_results)]
               /\ model' = model
          ELSE /\ model' = gemini.model
               /\ runs' = [runs EXCEPT ![c] =
                    IF ~gemini.returned THEN Return(run, None)
                    ELSE IF FranceTravailClientRaises THEN Raise(run)
                    ELSE [run EXCEPT !.pc = "search", !.searches = 1]]
  /\ UNCHANGED <<environ, hashSeed, aggVars, cacheVars, appVars, restVars>>

\* search_offers_async returns: the run ends, or dispatches its batches
SearchReturns(c, all_offers) ==
  /\ runs[c].pc = "search"
  /\ LET descriptions == Descriptions(all_offers)
         run == [runs[c] EXCEPT !.all_offers = all_offers,
                                !.postings = Len(all_offers),
                                !.described = Cardinality(
                                  {i \in 1..Len(all_offers) :
                                     all_offers[i].description # <<>>})]
         description_chunks == _chunk_list(descriptions, GEMINI_BATCH_SIZE)
     IN runs' = [runs EXCEPT ![c] =
          IF all_offers = <<>> THEN Return(run, None)
          ELSE IF descriptions = <<>> THEN Return(run, None)
          ELSE [run EXCEPT
                  !.pc = "gather",
                  !.extractions = Len(description_chunks),
                  !.batch_results =
                     [i \in 1..Len(description_chunks) |-> Pending]]]
  /\ UNCHANGED <<environ, model, started, hashSeed, aggVars, cacheVars,
                 appVars, restVars>>

\* search_offers_async raises what it does not catch (a timeout, an answer
\* that is not JSON)
SearchRaises(c) ==
  /\ runs[c].pc = "search"
  /\ runs' = [runs EXCEPT ![c] = Raise(runs[c])]
  /\ UNCHANGED <<environ, model, started, hashSeed, aggVars, cacheVars,
                 appVars, restVars>>

\* one extraction call of the gather returns
ExtractionReturns(c, i, response) ==
  /\ runs[c].pc = "gather"
  /\ i \in 1..Len(runs[c].batch_results)
  /\ Awaited(runs[c].batch_results[i])
  /\ runs' = [runs EXCEPT ![c].batch_results[i] =
                             extract_skills_with_gemini(response),
                           ![c].calls = @ + 1]
  /\ UNCHANGED <<environ, model, started, hashSeed, aggVars, cacheVars,
                 appVars, restVars>>

\* the gather returns: aggregation, cache write, return
Join(c) ==
  /\ runs[c].pc = "gather"
  /\ \A i \in 1..Len(runs[c].batch_results) :
       runs[c].batch_results[i] # Pending
  /\ LET final_result == RunResult(runs[c].all_offers, runs[c].batch_results)
         cache_key == CacheKey(runs[c].job_title, NB_OFFERS_TO_ANALYZE)
         run == [runs[c] EXCEPT !.failed_batches =
                   Len(SelectSeq(runs[c].batch_results, FailedBatch))]
     IN IF final_result = None
        THEN /\ runs' = [runs EXCEPT ![c] = Return(run, None)]
             /\ UNCHANGED redis_store
        ELSE \E redis_error \in RedisErrors :
               /\ redis_store' = add_to_cache(cache_key, final_result,
                                              redis_error)
               /\ runs' = [runs EXCEPT ![c] =
                    Return([run EXCEPT
                              !.cache_writes = 1,
                              !.entry = IF redis_client # None /\ ~redis_error
                                        THEN "stored" ELSE "gone"],
                           final_result)]
  /\ UNCHANGED <<environ, model, started, hashSeed, aggVars, redis_client,
                 cache_call, cache_added, cache_stored, cache_ever, appVars, restVars>>

NextPipeline ==
  \/ \E c \in Callers, job_title \in JobTitles : StartRun(c, job_title)
  \/ \E c \in Callers, all_offers \in OfferLists : SearchReturns(c, all_offers)
  \/ \E c \in Callers : SearchRaises(c)
  \/ \E c \in Callers, i \in 1..2, response \in Responses :
       ExtractionReturns(c, i, response)
  \/ \E c \in Callers : Join(c)
  \/ \E cache_key \in CacheKeyPool : Expire(cache_key)

SpecPipeline == InitPipeline /\ [][NextPipeline]_vars

\* C4: a run of get_skills_for_job that finds a cached value for its key
\* returns that value at once, having made no search, no extraction call and
\* no cache write.
TheoremC4 ==
  \A c \in Callers :
    (runs[c].pc # "idle" /\ ~Falsy(runs[c].found)) =>
      /\ runs[c].pc = "returned"
      /\ runs[c].returned = runs[c].found
      /\ runs[c].searches = 0
      /\ runs[c].extractions = 0
      /\ runs[c].cache_writes = 0

WitnessC4 ==
  \E c \in Callers :
    /\ runs[c].pc = "returned"
    /\ ~Falsy(runs[c].found)
    /\ runs[c].returned = runs[c].found
    /\ Len(runs[c].returned.skills) >= 1

\* C5: when the search returns no posting, or no posting with a non-empty
\* description, the run returns None and has made no extraction call.
TheoremC5 ==
  \A c \in Callers :
    (runs[c].pc \in {"gather", "returned"} /\ runs[c].searches = 1
       /\ runs[c].described = 0) =>
      /\ runs[c].pc = "returned"
      /\ runs[c].returned = None
      /\ runs[c].extractions = 0
      /\ runs[c].cache_writes = 0

WitnessC5 ==
  \E c \in Callers :
    /\ runs[c].pc = "returned"
    /\ runs[c].searches = 1
    /\ runs[c].postings = 2
    /\ runs[c].described = 0
    /\ runs[c].returned = None

\* the step of caller c at which its gather returns
GatherReturns(c) == runs[c].pc = "gather" /\ runs'[c].pc # "gather"

SomeButNotAllFailed(batch_results) ==
  /\ \E i \in 1..Len(batch_results) : FailedBatch(batch_results[i])
  /\ \E i \in 1..Len(batch_results) : UsableBatch(batch_results[i])

\* the aggregation of the successful batches alone
MergeOfSuccessful(batch_results) ==
  _aggregate_results(SelectSeq(batch_results, UsableBatch))

\* C6: when some but not all batches of a run have failed, the run returns a
\* result that is not None and whose tallies are the merge of the successful
\* batches.
ClaimC6 ==
  [][\A c \in Callers :
       (GatherReturns(c) /\ SomeButNotAllFailed(runs[c].batch_results)) =>
         /\ runs'[c].pc = "returned"
         /\ runs'[c].returned # None
         /\ runs'[c].returned =
              FinalResult(MergeOfSuccessful(runs[c].batch_results),
                          runs[c].all_offers)]_vars

\* C6 (amended): when some but not all batches of a run have failed, the run
\* does not raise; it returns the result whose tallies are the merge of the
\* successful batches when that merge holds at least one skill, and None when
\* the successful batches name no skill.
TheoremC6 ==
  [][\A c \in Callers :
       (GatherReturns(c) /\ SomeButNotAllFailed(runs[c].batch_results)) =>
         /\ runs'[c].pc = "returned"
         /\ runs'[c].returned =
              IF MergeOfSuccessful(runs[c].batch_results).skills = <<>>
              THEN None
              ELSE FinalResult(MergeOfSuccessful(runs[c].batch_results),
                               runs[c].all_offers)]_vars

WitnessC6 ==
  \E c \in Callers :
    /\ runs[c].pc = "returned"
    /\ runs[c].extractions = 2
    /\ runs[c].failed_batches = 1
    /\ runs[c].returned # None
    /\ runs[c].returned.actual_offers_count = 7

(***************************************************************************)
(* app.py: _normalize_search_term and handle_analysis_click with the       *)
(* registry _active_searches.  A combining mark is the character named by  *)
(* its code point.                                                         *)
(***************************************************************************)
MaxClicks == 4

\* unicodedata.normalize('NFKD', term), character by character
Decomposed(c) ==
  CASE c = "é" -> <<"e", "U+0301">>
    [] c = "É" -> <<"E", "U+0301">>
    [] c = "à" -> <<"a", "U+0300">>
    [] c = "À" -> <<"A", "U+0300">>
    [] OTHER -> <<c>>

RECURSIVE NFKD(_)
NFKD(term) ==
  IF term = <<>> THEN <<>> ELSE Decomposed(Head(term)) \o NFKD(Tail(term))

AsciiChars ==
  {LowerLetters[i] : i \in 1..26} \cup {UpperLetters[i] : i \in 1..26}
    \cup {DigitChars[i] : i \in 1..10}
    \cup {" ", "+", "#", "-", ".", "/", "@", "'", "\"", "\\"}

\* encode('ascii', 'ignore').decode('utf-8')
AsciiIgnore(term) == SelectSeq(term, LAMBDA c : c \in AsciiChars)

\* the term encoded as it is, without the decomposition of accented letters
_normalize_search_term_undecomposed(term) == Strip(Lower(AsciiIgnore(term)))

_normalize_search_term(term) == Strip(Lower(AsciiIgnore(NFKD(term))))

\* what the user can have typed in job_input
rDev == <<"D", "e", "v">>
rDevAccent == <<" ", "d", "é", "v", " ">>
rChef == <<"C", "h", "e", "f">>

RawTerms == {<<>>, rDev, rDevAccent, rChef}

\* the outcomes of the awaited pipeline call: a result with skills, None, a
\* result without skills, an exception, the cancellation of the handler
PipelineOutcomes == {"result", "none", "no_skills", "raised", "cancelled"}

\* the registry is keyed by what the user typed
RegistryKeyOriginal(original_job_term, normalized_job_term) ==
  original_job_term

\* _active_searches[normalized_job_term] = search_future
RegistryKey(original_job_term, normalized_job_term) == normalized_job_term

\* the clean-up sits at the end of the try block, not in a finally
CompletedUnlessRaised(outcome) == outcome \notin {"raised", "cancelled"}

\* finally: the future is completed and the entry removed, however the
\* handler leaves the try block
Completed(outcome) == TRUE

InitApp ==
  /\ hashSeed = 0
  /\ AggIdle
  /\ CacheIdle
  /\ PipeIdle
  /\ AppIdle
  /\ RestIdle

\* handle_analysis_click up to its return or to the await of the pipeline
ClickAnalysis(h, original_job_term) ==
  /\ clicks < MaxClicks
  /\ handlers[h].pc \in {"idle", "returned"}
  /\ clicks' = clicks + 1
  /\ LET normalized_job_term == _normalize_search_term(original_job_term)
         handler == [IdleHandler EXCEPT
                       !.normalized_job_term = normalized_job_term]
         search_future == Len(futures) + 1
     IN IF original_job_term = <<>>
        THEN /\ handlers' = [handlers EXCEPT ![h] =
                  [handler EXCEPT !.pc = "returned", !.outcome = "empty"]]
             /\ UNCHANGED <<_active_searches, futures>>
        ELSE IF normalized_job_term \in DOMAIN _active_searches
        THEN /\ handlers' = [handlers EXCEPT ![h] =
                  [handler EXCEPT
                     !.pc = "returned", !.outcome = "duplicate",
                     !.found_future = _active_searches[normalized_job_term]]]
             /\ UNCHANGED <<_active_searches, futures>>
        ELSE /\ futures' = Append(futures, [done |-> FALSE])
             /\ _active_searches' =
                  (RegistryKey(original_job_term, normalized_job_term)
                     :> search_future) @@ _active_searches
             /\ handlers' = [handlers EXCEPT ![h] =
                  [handler EXCEPT !.pc = "pipeline",
                                  !.original_job_term = original_job_term,
                                  !.search_future = search_future]]
  /\ UNCHANGED <<hashSeed, aggVars, cacheVars, pipeVars, restVars>>

\* the awaited pipeline call ends, and the handler runs to its end
PipelineReturns(h, outcome) ==
  /\ handlers[h].pc = "pipeline"
  /\ handlers' = [handlers EXCEPT ![h].pc = "returned",
                                  ![h].original_job_term = <<>>,
                                  ![h].outcome = outcome]
  /\ futures' =
       IF Completed(outcome)
       THEN [futures EXCEPT ![handlers[h].search_future].done = TRUE]
       ELSE futures
  /\ _active_searches' =
       IF Completed(outcome)
       THEN StoreWithout(_active_searches, handlers[h].normalized_job_term)
       ELSE _active_searches
  /\ UNCHANGED <<clicks, hashSeed, aggVars, cacheVars, pipeVars, restVars>>

Next ==
  \/ \E h \in HandlerSlots, original_job_term \in RawTerms :
       ClickAnalysis(h, original_job_term)
  \/ \E h \in HandlerSlots, outcome \in PipelineOutcomes :
       PipelineReturns(h, outcome)

Init == InitApp

Spec == Init /\ [][Next]_vars

InPipeline(h) == handlers[h].pc = "pipeline"

TurnedAway(h) ==
  handlers[h].pc = "returned" /\ handlers[h].outcome = "duplicate"

\* returned after having registered its term
Finished(h) ==
  handlers[h].pc = "returned" /\ handlers[h].outcome \in PipelineOutcomes

\* C7: at any time at most one pipeline run is in flight for a normalized
\* term, and the term of a run in flight is registered in _active_searches.
TheoremC7 ==
  /\ \A h1, h2 \in HandlerSlots :
       (h1 # h2 /\ InPipeline(h1) /\ InPipeline(h2)) =>
         handlers[h1].normalized_job_term # handlers[h2].normalized_job_term
  /\ \A h \in HandlerSlots :
       InPipeline(h) =>
         handlers[h].normalized_job_term \in DOMAIN _active_searches

WitnessC7 ==
  \E h1, h2, h3 \in HandlerSlots :
    /\ InPipeline(h1) /\ handlers[h1].original_job_term = rDev
    /\ InPipeline(h2) /\ handlers[h2].original_job_term = rChef
    /\ TurnedAway(h3)
    /\ handlers[h3].normalized_job_term = handlers[h1].normalized_job_term
    /\ handlers[h3].found_future = handlers[h1].search_future

\* C8: a handler invoked for a term that has a run in flight awaits the
\* future of that run, so that it has not returned before the run completed,
\* and it dispatches no pipeline run of its own.
ClaimC8 ==
  \A h \in HandlerSlots :
    TurnedAway(h) =>
      /\ futures[handlers[h].found_future].done
      /\ handlers[h].search_future = 0

\* C9: the entries of _active_searches are the runs in flight, each under its
\* own future, not yet completed; a handler that registered a term and has
\* finished, however it finished, has completed its future and left no entry
\* for it; hence the registry is empty whenever no run is in flight.
TheoremC9 ==
  /\ \A term \in DOMAIN _active_searches :
       /\ ~futures[_active_searches[term]].done
       /\ \E h \in HandlerSlots :
            /\ InPipeline(h)
            /\ handlers[h].normalized_job_term = term
            /\ handlers[h].search_future = _active_searches[term]
  /\ \A h \in HandlerSlots :
       InPipeline(h) =>
         /\ handlers[h].normalized_job_term \in DOMAIN _active_searches
         /\ _active_searches[handlers[h].normalized_job_term]
              = handlers[h].search_future
  /\ \A h \in HandlerSlots :
       Finished(h) =>
         /\ futures[handlers[h].search_future].done
         /\ \A term \in DOMAIN _active_searches :
              _active_searches[term] # handlers[h].search_future
  /\ (\A h \in HandlerSlots : ~InPipeline(h)) => _active_searches = <<>>

\* a run that ended by an exception, a caller turned away meanwhile, and a
\* later click that starts a new run for the same term
WitnessC9 ==
  \E h1, h2, h3 \in HandlerSlots :
    /\ Finished(h1) /\ handlers[h1].outcome = "raised"
    /\ TurnedAway(h3)
    /\ handlers[h3].found_future = handlers[h1].search_future
    /\ InPipeline(h2)
    /\ handlers[h2].normalized_job_term = handlers[h1].normalized_job_term
    /\ handlers[h2].search_future > handlers[h1].search_future

\* C12: no run of get_skills_for_job raises to its caller: whatever fails
\* (the job-source client, its construction without credentials, the LLM
\* initialisation, an extraction call), the run ends by returning a result
\* or None.
ClaimC12 == \A c \in Callers : runs[c].pc # "raised"

\* a step of the run of caller c
RunStep(c) == runs'[c] # runs[c]

\* C13: a run whose merged skill table is empty returns None and writes
\* nothing to the cache, and no step of a run that returns None changes the
\* cache store: the store changes at a step of a run only when that step
\* returns a result.
TheoremC13 ==
  [][\A c \in Callers :
       RunStep(c) =>
         /\ (GatherReturns(c)
               /\ _aggregate_results(runs[c].batch_results).skills = <<>>) =>
              /\ runs'[c].pc = "returned"
              /\ runs'[c].returned = None
              /\ redis_store' = redis_store
         /\ (runs'[c].pc = "returned" /\ runs'[c].returned = None) =>
              /\ runs'[c].cache_writes = 0
              /\ redis_store' = redis_store
         /\ redis_store' # redis_store =>
              /\ runs'[c].pc = "returned"
              /\ runs'[c].returned # None]_vars

WitnessC13 ==
  \E c \in Callers :
    /\ runs[c].pc = "returned"
    /\ runs[c].returned = None
    /\ runs[c].extractions >= 1
    /\ runs[c].failed_batches < runs[c].extractions
    /\ runs[c].cache_writes = 0
    /\ redis_store # <<>>

\* the step at which caller c starts a run
Starts(c) == started' = started + 1 /\ RunStep(c)

\* the run of caller d missed the cache, produced a result and returned it
Produced(d) ==
  /\ runs[d].pc = "returned"
  /\ runs[d].returned # None
  /\ runs[d].cache_writes = 1

\* the value stored under the key of the run of caller c
StoredFor(c, store) ==
  LET cache_key == CacheKey(runs[c].job_title, NB_OFFERS_TO_ANALYZE)
  IN IF cache_key \in DOMAIN store
     THEN json_loads(store[cache_key].value)
     ELSE JSONDecodeError

\* C14: a run that misses the cache and produces a result has stored exactly
\* the result it returns under its key when it returns; and a run that
\* starts after it with the same key, while the entry has not expired and
\* the cache answers the read, returns an equal result as a cache hit,
\* having made no search and no extraction call.
ClaimC14 ==
  [][\A c \in Callers :
       /\ (GatherReturns(c) /\ runs'[c].returned # None) =>
            /\ StoredFor(c, redis_store').ok
            /\ StoredFor(c, redis_store').value = runs'[c].returned
       /\ \A d \in Callers :
            (/\ Starts(c)
             /\ Produced(d)
             /\ runs[d].entry = "stored"
             /\ runs'[c].job_title = runs[d].job_title
             /\ redis_client # None
             /\ runs'[c].found # None) =>
              /\ runs'[c].pc = "returned"
              /\ runs'[c].returned = runs[d].returned
              /\ runs'[c].searches = 0
              /\ runs'[c].extractions = 0]_vars

\* the analysis result an entry of the store holds
Cached(store, cache_key) == json_loads(store[cache_key].value).value

\* C15: a cached result is immutable: while an entry exists, no step of a run
\* of get_skills_for_job replaces its value with a different one, whatever
\* the interleaving of the runs that use the key.
ClaimC15 ==
  [][\A cache_key \in CacheKeyPool :
       (cache_key \in DOMAIN redis_store /\ cache_key \in DOMAIN redis_store')
         => Cached(redis_store', cache_key) = Cached(redis_store, cache_key)]_vars

\* C16: when REDIS_URL is not set or Redis does not answer while the cache
\* module initialises, the client stays None for the rest of the process and
\* every call is a no-op: get_cached_results returns None for every key (so a
\* run of get_skills_for_job finds no cached value and goes on), add_to_cache
\* and delete_from_cache leave the store as it is.
TheoremC16 ==
  [][(/\ environ.REDIS_URL # "reachable"
      /\ cache_call'.op \in {"get_cached_results", "add_to_cache",
                             "delete_from_cache"}) =>
       /\ redis_client' = None
       /\ redis_store' = redis_store
       /\ cache_call'.op = "get_cached_results" =>
            /\ cache_call'.returned = None
            /\ ~CacheHit(cache_call'.returned)
       /\ \A cache_key \in CacheKeyPool :
            ~CacheHit(get_cached_results(cache_key, FALSE))]_vars

WitnessC16 ==
  /\ environ.REDIS_URL = "unreachable"
  /\ cache_call.op = "delete_from_cache"
  /\ cache_call.cache_key \in DOMAIN redis_store
  /\ cache_call.cache_key \in DOMAIN cache_added

\* C17: get_cached_results returns None, and leaves the stored entry as it
\* is, when the value stored under the key is not JSON and when the read of
\* the store fails.
TheoremC17 ==
  [][cache_call'.op = "get_cached_results" =>
       /\ redis_store' = redis_store
       /\ (\/ cache_call'.redis_error
           \/ /\ redis_client # None
              /\ cache_call'.cache_key \in DOMAIN redis_store
              /\ redis_store[cache_call'.cache_key].value \in CorruptTexts) =>
            cache_call'.returned = None]_vars

WitnessC17 ==
  /\ cache_call.op = "get_cached_results"
  /\ ~cache_call.redis_error
  /\ redis_client # None
  /\ cache_call.cache_key \in DOMAIN redis_store
  /\ redis_store[cache_call.cache_key].value \in CorruptTexts
  /\ cache_call.returned = None

\* ---------------------------------------------------------------------
\* Functions without state, each applied once to arguments drawn from
\* bounded sets
\* ---------------------------------------------------------------------

\* gemini_extractor.py:126, the key of the get_skills_for_job kept there
LowerStripKey(job_title, num_offers) ==
  Strip(Lower(job_title)) \o <<"@">> \o Digits(num_offers)

qDevLead == <<" ", "d", "e", "v">>
qDevTrail == <<"d", "e", "v", " ">>
qDevBoth == <<" ", "D", "e", "v", " ">>
qInner == <<"d", " ", "v">>
qAt == <<"a", "@", "1">>

Queries == {<<>>, <<" ">>, tDev, rDev, tChef, qDevLead, qDevTrail, qDevBoth,
            qInner, qAt}

Counts == {0, 1, 10, 50, NB_OFFERS_TO_ANALYZE, 101}

KeyInputs == [query : Queries, count : Counts]

MaxData == 5

MaxChunkSize == 3

\* lists of up to MaxData elements, some of them equal
ChunkInputs ==
  [data : SeqsUpTo({"a", "b"}, MaxData), chunk_size : 1..MaxChunkSize]

sAlimentation ==
  <<"A", "l", "i", "m", "e", "n", "t", "a", "t", "i", "o", "n">>

sSoins ==
  <<"S", "o", "i", "n", "s", " ", "a", "u", "x", " ",
    "a", "n", "i", "m", "a", "u", "x">>

\* str.upper()
Upper(s) == [i \in 1..Len(s) |-> UpperChar(s[i])]

\* skill strings as the LLM writes them, each in the case it came in, in
\* lower case and in upper case
SkillPool ==
  LET written == {sSQL, sPython, sAWS, sPowerBi, sGestion, sAlimentation,
                  sSoins, sBlank}
  IN written \cup {Lower(skill) : skill \in written}
             \cup {Upper(skill) : skill \in written}

SkillInputs == [skill_raw : SkillPool]

\* the letter an accented letter is written over
Unaccented(c) ==
  CASE c = "é" -> "e"
    [] c = "É" -> "E"
    [] c = "à" -> "a"
    [] c = "À" -> "A"
    [] OTHER -> c

Unaccent(s) == [i \in 1..Len(s) |-> Unaccented(s[i])]

Padded(s, lead, trail) ==
  [i \in 1..lead |-> " "] \o s \o [i \in 1..trail |-> " "]

bDev == <<"d", "é", "v">>
bDeja == <<"d", "é", "j", "à">>
bChefDe == <<"c", "h", "e", "f", " ", "d", "e">>
bAccents == <<"é", "à">>

TermBases == {<<>>, bDev, bDeja, bChefDe, bAccents}

\* the spellings of a term that differ from it only in letter case, in
\* accents or in leading and trailing whitespace
Spellings(base) ==
  LET cased == {base, Upper(base), Capitalize(base)}
      accented == cased \cup {Unaccent(s) : s \in cased}
  IN {Padded(s, lead, trail) : s \in accented, lead \in 0..1, trail \in 0..2}

TermInputs ==
  UNION {[term : Spellings(base), other : Spellings(base)] : base \in TermBases}

\* normalization.py: the characters of the model in code point order, the
\* order in which str compares
CodePointOrder ==
  <<" ", "\"", "#", "'", "+", "-", ".", "/">> \o DigitChars \o <<"@">>
    \o SubSeq(UpperLetters, 1, 26) \o <<"\\">> \o SubSeq(LowerLetters, 1, 26)
    \o <<"À", "É", "à", "é">>

CodePoint(c) == CHOOSE i \in 1..Len(CodePointOrder) : CodePointOrder[i] = c

\* a < b for two str
RECURSIVE StrLess(_, _)
StrLess(a, b) ==
  IF b = <<>> THEN FALSE
  ELSE IF a = <<>> THEN TRUE
  ELSE IF Head(a) = Head(b) THEN StrLess(Tail(a), Tail(b))
  ELSE CodePoint(Head(a)) < CodePoint(Head(b))

\* re.sub(r'[^a-z0-9]', '', skill_name.lower())
get_canonical_form(skill_name) ==
  SelectSeq(Lower(skill_name),
            LAMBDA c : \/ \E i \in 1..26 : LowerLetters[i] = c
                       \/ \E i \in 1..10 : DigitChars[i] = c)

\* (not has_space, -uppercase_count, -length, skill)
sort_key(skill) ==
  LET stripped == Strip(skill)
      has_space == \E i \in 1..Len(stripped) : stripped[i] = " "
  IN [not_has_space |-> IF has_space THEN 0 ELSE 1,
      uppercase_count |-> -Cardinality({i \in 1..Len(skill) : IsUpperChar(skill[i])}),
      length |-> -Len(skill),
      skill |-> skill]

\* the comparison of two such tuples
SortKeyLess(a, b) ==
  \/ a.not_has_space < b.not_has_space
  \/ /\ a.not_has_space = b.not_has_space
     /\ \/ a.uppercase_count < b.uppercase_count
        \/ /\ a.uppercase_count = b.uppercase_count
           /\ \/ a.length < b.length
              \/ a.length = b.length /\ StrLess(a.skill, b.skill)

\* the first variant of the list, whatever its key
choose_first_variant(skill_variants) ==
  IF skill_variants = <<>> THEN <<>> ELSE skill_variants[1]

\* sorted(skill_variants, key=sort_key)[0]; the sort is stable
choose_best_representation(skill_variants) ==
  IF skill_variants = <<>> THEN <<>>
  ELSE LET n == Len(skill_variants)
           key == [i \in 1..n |-> sort_key(skill_variants[i])]
           first == CHOOSE i \in 1..n :
                      /\ \A j \in 1..n : ~SortKeyLess(key[j], key[i])
                      /\ \A j \in 1..(i - 1) : SortKeyLess(key[i], key[j])
       IN skill_variants[first]

\* set(skill_list)
RECURSIVE SetOf(_)
SetOf(list) ==
  IF list = <<>> THEN <<>>
  ELSE SetAdd(SetOf(SubSeq(list, 1, Len(list) - 1)), list[Len(list)])

\* normalization.py:18-22
RECURSIVE CanonicalMap(_)
CanonicalMap(skills) ==
  IF skills = <<>> THEN <<>>
  ELSE LET canonical_map == CanonicalMap(SubSeq(skills, 1, Len(skills) - 1))
           skill == skills[Len(skills)]
           canonical_form == get_canonical_form(skill)
       IN IF canonical_form # <<>>
          THEN DictSet(canonical_map, canonical_form,
                       Append(DictGet(canonical_map, canonical_form, <<>>), skill))
          ELSE canonical_map

\* normalization.py:26-27
RECURSIVE MapVariants(_, _, _)
MapVariants(normalization_map, variants, best_representation) ==
  IF variants = <<>> THEN normalization_map
  ELSE MapVariants(DictSet(normalization_map, Head(variants), best_representation),
                   Tail(variants), best_representation)

\* normalization.py:23-25
RECURSIVE NormalizationMap(_)
NormalizationMap(canonical_map) ==
  IF canonical_map = <<>> THEN <<>>
  ELSE LET n == Len(canonical_map)
           variants == canonical_map[n].v
       IN MapVariants(NormalizationMap(SubSeq(canonical_map, 1, n - 1)),
                      variants, choose_best_representation(variants))

build_normalization_map(skill_list) ==
  NormalizationMap(CanonicalMap(SetIterationOrder(SetOf(skill_list))))

vReactjs == <<"r", "e", "a", "c", "t", "j", "s">>
vReactDotJs == <<"r", "e", "a", "c", "t", ".", "j", "s">>
vReactjsTrail == <<"r", "e", "a", "c", "t", "j", "s", " ">>
vReactDotJsCap == <<"R", "e", "a", "c", "t", ".", "j", "s">>
vReactJS == <<"R", "e", "a", "c", "t", " ", "J", "S">>
vHash == <<"#">>

\* the names of a skill list: spellings of one skill, another skill and a
\* name without a letter or a digit
VariantPool ==
  {vReactjs, vReactDotJs, vReactjsTrail, vReactDotJsCap, vReactJS, ssql, vHash}

MaxSkills == 4

SkillListInputs == [skill_list : SeqsUpTo(VariantPool, MaxSkills)]

PureInputs ==
  KeyInputs \cup ChunkInputs \cup SkillInputs \cup TermInputs
    \cup SkillListInputs

Applied(fn, value) == [fn |-> fn, value |-> value]

InitPure ==
  /\ AggIdle
  /\ CacheIdle
  /\ PipeIdle
  /\ AppIdle
  /\ FtIdle
  /\ pure_in \in PureInputs
  /\ hashSeed \in IF "skill_list" \in DOMAIN pure_in THEN 0..MaxHashSeed ELSE {0}
  /\ pure_out = None

PureFrame ==
  UNCHANGED <<pure_in, hashSeed, aggVars, cacheVars, pipeVars, appVars, ftVars>>

\* pipeline.py:140
PipelineCacheKey ==
  /\ "query" \in DOMAIN pure_in
  /\ pure_out = None
  /\ pure_out' = Applied("pipeline", CacheKey(pure_in.query, pure_in.count))
  /\ PureFrame

\* gemini_extractor.py:126
ExtractorCacheKey ==
  /\ "query" \in DOMAIN pure_in
  /\ pure_out = None
  /\ pure_out' = Applied("extractor", LowerStripKey(pure_in.query, pure_in.count))
  /\ PureFrame

\* pipeline.py:68
ChunkList ==
  /\ "data" \in DOMAIN pure_in
  /\ pure_out = None
  /\ pure_out' = Applied("_chunk_list",
                          _chunk_list(pure_in.data, pure_in.chunk_size))
  /\ PureFrame

\* pipeline.py:93-101, the display form and the counting key of one skill
StandardizeSkill ==
  /\ "skill_raw" \in DOMAIN pure_in
  /\ pure_out = None
  /\ LET skill_stripped == Strip(pure_in.skill_raw)
     IN pure_out' =
          Applied("counting_key",
                  [standardized_skill_for_display |->
                     _standardize_skill_python(skill_stripped),
                   counting_key |-> CountingKey(skill_stripped)])
  /\ PureFrame

\* app.py:360-378 and pipeline.py:140 for each of two terms typed into
\* job_input: the normalised term, the key of its _active_searches entry and
\* its cache key, and the normalised term normalised once more
NormalizedTerm(original_job_term) ==
  LET normalized_job_term == _normalize_search_term(original_job_term)
  IN [normalized_job_term |-> normalized_job_term,
      again |-> _normalize_search_term(normalized_job_term),
      active_search |-> RegistryKey(original_job_term, normalized_job_term),
      cache_key |-> CacheKey(normalized_job_term, NB_OFFERS_TO_ANALYZE)]

NormalizeSearchTerm ==
  /\ "term" \in DOMAIN pure_in
  /\ pure_out = None
  /\ pure_out' = Applied("_normalize_search_term",
                          [term |-> NormalizedTerm(pure_in.term),
                           other |-> NormalizedTerm(pure_in.other)])
  /\ PureFrame

\* skill_extractor.py:40, for the list read from the file, for the same
\* list in reverse order and for the list of its distinct names
BuildNormalizationMap ==
  /\ "skill_list" \in DOMAIN pure_in
  /\ pure_out = None
  /\ pure_out' =
       Applied("build_normalization_map",
               [normalization_map |-> build_normalization_map(pure_in.skill_list),
                of_reversed |-> build_normalization_map(Reversed(pure_in.skill_list)),
                of_distinct |-> build_normalization_map(SetOf(pure_in.skill_list))])
  /\ PureFrame

NextPure ==
  \/ PipelineCacheKey
  \/ ExtractorCacheKey
  \/ ChunkList
  \/ StandardizeSkill
  \/ BuildNormalizationMap
  \/ NormalizeSearchTerm

SpecPure == InitPure /\ [][NextPure]_vars

KeyOf(fn, query, count) ==
  IF fn = "pipeline" THEN CacheKey(query, count) ELSE LowerStripKey(query, count)

KeyApplied == pure_out # None /\ pure_out.fn \in {"pipeline", "extractor"}

\* C11: the cache key computed for (query, count) equals the key computed
\* for (query.strip(), count), and differs from the key of the same query
\* with any other count.
ClaimC11 ==
  KeyApplied =>
    /\ pure_out.value = KeyOf(pure_out.fn, Strip(pure_in.query), pure_in.count)
    /\ \A c2 \in Counts :
         c2 # pure_in.count =>
           KeyOf(pure_out.fn, pure_in.query, c2) # pure_out.value

\* an entry whose index can point at a posting of its batch: an index is
\* there, it lies within the size of a batch (counted from 0 or from 1), and
\* no earlier entry of the batch carries it
MapsBack(extracted_data, e) ==
  /\ "index" \in DOMAIN extracted_data[e]
  /\ extracted_data[e].index \in 0..GEMINI_BATCH_SIZE
  /\ \A f \in 1..(e - 1) :
       "index" \in DOMAIN extracted_data[f] =>
         extracted_data[f].index # extracted_data[e].index

RECURSIVE MappedEntries(_, _)
MappedEntries(extracted_data, e) ==
  IF e = 0 THEN <<>>
  ELSE IF MapsBack(extracted_data, e)
  THEN Append(MappedEntries(extracted_data, e - 1), extracted_data[e])
  ELSE MappedEntries(extracted_data, e - 1)

\* the batch results without the entries whose index maps back to nothing
WithoutUnmapped(batch_results) ==
  [b \in 1..Len(batch_results) |->
     IF UsableBatch(batch_results[b])
     THEN [extracted_data |->
             MappedEntries(batch_results[b].extracted_data,
                           Len(batch_results[b].extracted_data))]
     ELSE batch_results[b]]

\* C20: an entry whose index is out of range, repeated or missing adds
\* nothing to the skill tallies or to the education tallies: the tallies are
\* those of the batch results without such entries.
ClaimC20 ==
  agg_pc = "done" =>
    LET expected == AggregateTables(WithoutUnmapped(agg_input))
    IN /\ Items(expected.skill_frequencies_normalized_key)
            = Items(agg_tables.skill_frequencies_normalized_key)
       /\ Items(expected.education_frequencies)
            = Items(agg_tables.education_frequencies)

\* the education label of the entry at pos, as the aggregation reads it
LabelAt(batch_results, pos) ==
  Get(batch_results[pos[1]].extracted_data[pos[2]], "education_level",
      NonSpecifie)

\* the entries that carry the label
Carrying(batch_results, label) ==
  {pos \in EntriesOf(batch_results) : LabelAt(batch_results, pos) = label}

\* the labels that count: not empty and not "Non spécifié"
CountedLabels(batch_results) ==
  {LabelAt(batch_results, pos) : pos \in EntriesOf(batch_results)}
    \ {<<>>, NonSpecifie}

\* pos comes before other in batch order, then entry order
Before(pos, other) ==
  pos[1] < other[1] \/ (pos[1] = other[1] /\ pos[2] < other[2])

\* label is counted before other: its first entry comes first
CountedFirst(batch_results, label, other) ==
  \E pos \in Carrying(batch_results, label) :
    \A q \in Carrying(batch_results, other) : Before(pos, q)

\* C21: top_diploma is the label carried by the most entries among the
\* labels that are neither empty nor "Non spécifié", the one counted first
\* among those of equal highest count, and "Non précisé" when no entry
\* carries such a label.
TheoremC21 ==
  agg_pc = "done" =>
    LET labels == CountedLabels(agg_input)
        top == agg_result.top_diploma
    IN IF labels = {} THEN top = NonPrecise
       ELSE /\ top \in labels
            /\ \A label \in labels \ {top} :
                 LET n == Cardinality(Carrying(agg_input, label))
                     m == Cardinality(Carrying(agg_input, top))
                 IN \/ n < m
                    \/ n = m /\ CountedFirst(agg_input, top, label)

\* two labels of equal highest count, beside entries that are not counted
WitnessC21 ==
  /\ agg_pc = "done"
  /\ \E label \in CountedLabels(agg_input) \ {agg_result.top_diploma} :
       Cardinality(Carrying(agg_input, label))
         = Cardinality(Carrying(agg_input, agg_result.top_diploma))
  /\ \E pos \in EntriesOf(agg_input) :
       LabelAt(agg_input, pos) \in {<<>>, NonSpecifie}

\* C22: the result of a run that missed the cache carries, as
\* actual_offers_count, the number of postings the search returned to that
\* run, those without a description included.
TheoremC22 ==
  \A c \in Callers :
    (runs[c].pc = "returned" /\ runs[c].returned # None
       /\ Falsy(runs[c].found)) =>
      /\ runs[c].searches = 1
      /\ runs[c].returned.actual_offers_count = runs[c].postings

WitnessC22 ==
  \E c \in Callers :
    /\ runs[c].pc = "returned"
    /\ runs[c].returned # None
    /\ Falsy(runs[c].found)
    /\ runs[c].postings = 7
    /\ runs[c].described = 6
    /\ runs[c].returned.actual_offers_count = 7

\* C23: flush_all_cache returns True only when it has emptied the whole
\* store, and False, the store unchanged, when the client is None or the
\* FLUSHALL command fails; an emptied store stays empty until the next
\* add_to_cache, and get_cached_results returns None for every key while it
\* is empty.
TheoremC23 ==
  [][/\ cache_call'.op = "flush_all_cache" =>
          /\ cache_call'.returned \in BOOLEAN
          /\ cache_call'.returned => redis_store' = <<>>
          /\ ~cache_call'.returned => redis_store' = redis_store
          /\ cache_call'.returned
               = (redis_client # None /\ ~cache_call'.redis_error)
     /\ (redis_store = <<>> /\ cache_call'.op # "add_to_cache") =>
          /\ redis_store' = <<>>
          /\ cache_call'.op = "get_cached_results" =>
               cache_call'.returned = None]_vars

\* a flush that returned True, after results were added
WitnessC23 ==
  /\ cache_call.op = "flush_all_cache"
  /\ cache_call.returned = TRUE
  /\ cache_ever = CacheKeyPool
  /\ redis_store = <<>>

RECURSIVE Concat(_)
Concat(lists) ==
  IF lists = <<>> THEN <<>>
  ELSE Concat(SubSeq(lists, 1, Len(lists) - 1)) \o lists[Len(lists)]

\* C24: for chunk_size >= 1 the batches of _chunk_list, concatenated in
\* order, give the list back; every batch but the last has chunk_size
\* elements, the last has between 1 and chunk_size, and there are
\* ceil(len(data) / chunk_size) batches, none for the empty list.
TheoremC24 ==
  (pure_out # None /\ pure_out.fn = "_chunk_list") =>
    LET chunks == pure_out.value
        n == pure_in.chunk_size
    IN /\ Concat(chunks) = pure_in.data
       /\ \A k \in 1..(Len(chunks) - 1) : Len(chunks[k]) = n
       /\ chunks # <<>> =>
            /\ Len(chunks[Len(chunks)]) >= 1
            /\ Len(chunks[Len(chunks)]) <= n
       /\ Len(chunks) = (Len(pure_in.data) + n - 1) \div n
       /\ pure_in.data = <<>> => chunks = <<>>

\* five elements in batches of two: two full batches and one of one element
WitnessC24 ==
  /\ pure_out # None
  /\ pure_out.fn = "_chunk_list"
  /\ Len(pure_in.data) = 5
  /\ pure_in.chunk_size = 2
  /\ Len(pure_out.value) = 3
  /\ Len(pure_out.value[3]) = 1

\* ceil(n / GEMINI_BATCH_SIZE)
Batches(n) == (n + GEMINI_BATCH_SIZE - 1) \div GEMINI_BATCH_SIZE

\* C25: a run makes one extraction call per batch of descriptions, all
\* dispatched before one join, and makes no call again: when the run
\* returns, the number of extraction calls equals the number of batches,
\* whatever the number of calls that failed.
TheoremC25 ==
  \A c \in Callers :
    /\ runs[c].pc = "gather" =>
         /\ Len(runs[c].batch_results) = Batches(runs[c].described)
         /\ runs[c].extractions = Batches(runs[c].described)
         /\ runs[c].calls
              = Cardinality({i \in 1..Len(runs[c].batch_results) :
                               runs[c].batch_results[i] # Pending})
    /\ (runs[c].pc = "returned" /\ runs[c].searches = 1) =>
         /\ runs[c].extractions = Batches(runs[c].described)
         /\ runs[c].calls = runs[c].extractions
    /\ runs[c].calls <= runs[c].extractions

\* a run of two batches of which one failed
WitnessC25 ==
  \E c \in Callers :
    /\ runs[c].pc = "returned"
    /\ runs[c].described = 6
    /\ runs[c].extractions = 2
    /\ runs[c].failed_batches = 1
    /\ runs[c].calls = 2

\* C26: two skill strings that differ only in the case of their letters
\* have the same counting key: the key of a skill is the key of the skill
\* written in lower case and of the skill written in upper case.
ClaimC26 ==
  (pure_out # None /\ pure_out.fn = "counting_key") =>
    LET skill_stripped == Strip(pure_in.skill_raw)
    IN /\ CountingKey(Lower(skill_stripped)) = pure_out.value.counting_key
       /\ CountingKey(Upper(skill_stripped)) = pure_out.value.counting_key

\* the strings of the skill lists that are counted, each with where it
\* stands (batch, entry, place in the list), its counting key and its
\* standardized form
Forms(batch_results) ==
  UNION {LET skills == SkillsAt(batch_results, pos)
         IN {<<pos[1], pos[2], j, CountingKey(Strip(skills[j])),
               _standardize_skill_python(Strip(skills[j]))>> :
               j \in {j \in 1..Len(skills) : Strip(skills[j]) # <<>>}} :
         pos \in EntriesOf(batch_results)}

Earlier(f, g) ==
  \/ f[1] < g[1]
  \/ f[1] = g[1] /\ f[2] < g[2]
  \/ f[1] = g[1] /\ f[2] = g[2] /\ f[3] <= g[3]

\* the standardized form of the first string counted under key
FirstForm(forms, key) ==
  LET counted == {f \in forms : f[4] = key}
      first == CHOOSE f \in counted : \A g \in counted : Earlier(f, g)
  IN first[5]

\* C27: the display name of a counting key is the standardized form of the
\* first string counted under it, in batch order, then entry order, then
\* list order, whatever the later strings of the same key; it is the name
\* the result reports.
TheoremC27 ==
  agg_pc = "done" =>
    LET forms == Forms(agg_input)
    IN /\ \A i \in 1..Len(agg_tables.skill_display_names) :
            agg_tables.skill_display_names[i].v
              = FirstForm(forms, agg_tables.skill_display_names[i].k)
       /\ \A i \in 1..Len(agg_result.skills) :
            agg_result.skills[i].skill
              = FirstForm(forms, Lower(agg_result.skills[i].skill))

\* a key counted under two different forms, of which the last one counted is
\* not the first
WitnessC27 ==
  /\ agg_pc = "done"
  /\ \E i \in 1..Len(agg_result.skills) :
       \E f \in Forms(agg_input) :
         /\ f[4] = Lower(agg_result.skills[i].skill)
         /\ f[5] # agg_result.skills[i].skill
         /\ \A g \in Forms(agg_input) : g[4] = f[4] => Earlier(g, f)

TermApplied == pure_out # None /\ pure_out.fn = "_normalize_search_term"

\* C28: _normalize_search_term is idempotent, and two terms that differ
\* only in letter case, in accents or in leading and trailing whitespace get
\* the same normalised term, hence the same _active_searches key and the
\* same cache key.
TheoremC28 ==
  TermApplied =>
    /\ pure_out.value.term.again = pure_out.value.term.normalized_job_term
    /\ pure_out.value.other.again = pure_out.value.other.normalized_job_term
    /\ pure_out.value.term.normalized_job_term
         = pure_out.value.other.normalized_job_term
    /\ pure_out.value.term.active_search = pure_out.value.other.active_search
    /\ pure_out.value.term.cache_key = pure_out.value.other.cache_key

\* an accented, padded, upper-case spelling and the bare lower-case one
WitnessC28 ==
  /\ TermApplied
  /\ pure_in.term = Padded(Upper(bDeja), 1, 2)
  /\ pure_in.other = Unaccent(bDeja)
  /\ pure_out.value.term.normalized_job_term = <<"d", "e", "j", "a">>

MapApplied == pure_out # None /\ pure_out.fn = "build_normalization_map"

\* the names of the list that have the canonical form of this one
VariantsOf(skill_list, skill) ==
  {skill_list[i] : i \in {j \in 1..Len(skill_list) :
     get_canonical_form(skill_list[j]) = get_canonical_form(skill)}}

\* C29: the keys of the map are the names of the list that have a canonical
\* form; names of one canonical form have one representative, which is one
\* of them, the one of smallest sort key, and is mapped to itself; the map
\* is the same for the list in another order, under another iteration order
\* of the set, and without its duplicates.
TheoremC29 ==
  MapApplied =>
    LET skill_list == pure_in.skill_list
        normalization_map == pure_out.value.normalization_map
        at(v) == DictGet(normalization_map, v, None)
    IN /\ DictKeys(normalization_map)
            = {skill_list[i] : i \in {j \in 1..Len(skill_list) :
                 get_canonical_form(skill_list[j]) # <<>>}}
       /\ \A i, j \in 1..Len(normalization_map) :
            normalization_map[i].k = normalization_map[j].k => i = j
       /\ \A v \in DictKeys(normalization_map) :
            /\ at(v) \in VariantsOf(skill_list, v)
            /\ \A u \in VariantsOf(skill_list, v) :
                 /\ at(u) = at(v)
                 /\ u # at(v) => SortKeyLess(sort_key(at(v)), sort_key(u))
            /\ at(at(v)) = at(v)
       /\ Items(pure_out.value.of_reversed) = Items(normalization_map)
       /\ Items(pure_out.value.of_distinct) = Items(normalization_map)

\* "reactjs" read twice around "react.js", with a name that has no canonical
\* form, the set being iterated in another order than the list
WitnessC29 ==
  /\ MapApplied
  /\ hashSeed = 1
  /\ pure_in.skill_list = <<vReactjs, vReactDotJs, vReactjs, vHash>>
  /\ Items(pure_out.value.normalization_map)
       = {<<vReactjs, vReactDotJs>>, <<vReactDotJs, vReactDotJs>>}

\* every skill of the result is reported in at least one posting and in no
\* more postings than the result says were fetched
WithinFetched(final_result) ==
  \A i \in 1..Len(final_result.skills) :
    /\ final_result.skills[i].frequency >= 1
    /\ final_result.skills[i].frequency <= final_result.actual_offers_count

\* C30: in every result a run of get_skills_for_job computed and returned,
\* each listed skill has a frequency of at least 1 and of at most
\* actual_offers_count.
ClaimC30 ==
  \A c \in Callers :
    (runs[c].pc = "returned" /\ runs[c].returned # None
       /\ Falsy(runs[c].found)) =>
      WithinFetched(runs[c].returned)

\* ---------------------------------------------------------------------
\* france_travail_api.py: the calls of search_offers_async on one
\* FranceTravailClient, with a clock
\* ---------------------------------------------------------------------

MaxNow == 60

MaxSearches == 3

TickSeconds == 10

\* the margin taken off expires_in
TOKEN_MARGIN_SECONDS == 60

DEFAULT_EXPIRES_IN == 3600

\* how a request ends otherwise than by an answer with a success status:
\* raise_for_status on a 4xx/5xx answer and a connection failure raise
\* subclasses of aiohttp.ClientError; the total timeout of the request raises
\* asyncio.TimeoutError, which is not one
ClientErrors == {"http_error", "network"}

RequestFailures == ClientErrors \cup {"timeout"}

Failure(kind) == [kind |-> kind]

tokA == <<"t", "A">>
tokB == <<"t", "B">>

\* the answers to the token request: token_data with or without expires_in
TokenResponses ==
  {[kind |-> "ok", token_data |-> [access_token |-> tokA]],
   [kind |-> "ok", token_data |-> [access_token |-> tokB, expires_in |-> 65]],
   [kind |-> "ok", token_data |-> [access_token |-> tokB, expires_in |-> 70]],
   [kind |-> "ok", token_data |-> [access_token |-> tokA, expires_in |-> 90]],
   [kind |-> "ok", token_data |-> [access_token |-> tokA, expires_in |-> 30]]}
  \cup {Failure(kind) : kind \in RequestFailures}

apiDev == [intitule |-> tDev, description |-> <<"d", "1">>]
apiBare == [origineOffre |-> [urlOrigine |-> <<"u">>]]
apiFirm == [entreprise |-> [nom |-> <<"n">>], description |-> <<>>]

\* the answers to the search request
SearchResponses ==
  {[kind |-> "204"],
   [kind |-> "ok", api_response |-> [resultats |-> <<apiDev, apiBare, apiFirm>>]],
   [kind |-> "ok", api_response |-> [resultats |-> <<>>]],
   [kind |-> "ok", api_response |-> [filtresPossibles |-> <<>>]]}
  \cup {Failure(kind) : kind \in RequestFailures}

TitreNonPrecise ==
  <<"T", "i", "t", "r", "e", " ", "n", "o", "n", " ",
    "p", "r", "é", "c", "i", "s", "é">>

\* one element of the list search_offers_async returns
FormatOffer(offer) ==
  [titre |-> Get(offer, "intitule", TitreNonPrecise),
   entreprise |-> Get(Get(offer, "entreprise", <<>>), "nom", NonPrecise),
   url |-> Get(Get(offer, "origineOffre", <<>>), "urlOrigine", <<"#">>),
   description |-> Get(offer, "description", <<>>)]

\* now < expiry replaced by now <= expiry
_is_token_valid_at_expiry(client, now) ==
  /\ client._access_token # None
  /\ client._token_expiry_time # None
  /\ now <= client._token_expiry_time.seconds

_is_token_valid(client, now) ==
  /\ client._access_token # None
  /\ client._token_expiry_time # None
  /\ now < client._token_expiry_time.seconds

\* _get_access_token: the client afterwards, and whether the call returned
\* True, returned False or raised
_get_access_token(client, now, response) ==
  IF response.kind = "ok"
  THEN LET token_data == response.token_data
           expires_in == Get(token_data, "expires_in", DEFAULT_EXPIRES_IN)
       IN [client |-> [_access_token |-> token_data.access_token,
                       _token_expiry_time |->
                         Datetime(now + (expires_in - TOKEN_MARGIN_SECONDS)),
                       issue |-> [at |-> now, expires_in |-> expires_in]],
           raised |-> FALSE, returned |-> TRUE]
  ELSE IF response.kind \in ClientErrors
  THEN [client |-> client, raised |-> FALSE, returned |-> FALSE]
  ELSE [client |-> client, raised |-> TRUE, returned |-> FALSE]

\* the search request and what follows it
SearchRequest(response) ==
  IF response.kind = "204" THEN [raised |-> FALSE, returned |-> <<>>]
  ELSE IF response.kind = "ok"
  THEN LET api_results == Get(response.api_response, "resultats", <<>>)
       IN [raised |-> FALSE,
           returned |-> [i \in 1..Len(api_results) |->
                           FormatOffer(api_results[i])]]
  ELSE IF response.kind \in ClientErrors
  THEN [raised |-> FALSE, returned |-> <<>>]
  ELSE [raised |-> TRUE, returned |-> None]

\* search_offers_async: the client afterwards, how the call ended, and the
\* requests it sent
search_offers_async(client, now, token_response, search_response) ==
  LET valid == _is_token_valid(client, now)
      token == IF valid
               THEN [client |-> client, raised |-> FALSE, returned |-> TRUE]
               ELSE _get_access_token(client, now, token_response)
      token_requests == IF valid THEN 0 ELSE 1
      search == SearchRequest(search_response)
  IN IF token.raised
     THEN [client |-> token.client, raised |-> TRUE, returned |-> None,
           token_requests |-> token_requests, search_requests |-> 0]
     ELSE IF ~token.returned
     THEN [client |-> token.client, raised |-> FALSE, returned |-> <<>>,
           token_requests |-> token_requests, search_requests |-> 0]
     ELSE [client |-> token.client, raised |-> search.raised,
           returned |-> search.returned,
           token_requests |-> token_requests, search_requests |-> 1]

InitFt ==
  /\ hashSeed = 0
  /\ AggIdle
  /\ CacheIdle
  /\ PipeIdle
  /\ AppIdle
  /\ PureIdle
  /\ ft_client = NewClient
  /\ ft_now = 0
  /\ ft_call = NoSearch

FtFrame ==
  UNCHANGED <<hashSeed, aggVars, cacheVars, pipeVars, appVars, pureVars>>

\* one call of search_offers_async, from its start to its return
SearchOffers(token_response, search_response) ==
  /\ ft_call.n < MaxSearches
  /\ LET call == search_offers_async(ft_client, ft_now, token_response,
                                     search_response)
     IN /\ ft_client' = call.client
        /\ ft_call' = [pc |-> IF call.raised THEN "raised" ELSE "returned",
                       n |-> ft_call.n + 1,
                       returned |-> call.returned,
                       token_requests |-> call.token_requests,
                       search_requests |-> call.search_requests,
                       token_response |->
                         IF call.token_requests = 1 THEN token_response.kind
                         ELSE "none",
                       search_response |->
                         IF call.search_requests = 1 THEN search_response.kind
                         ELSE "none"]
  /\ UNCHANGED ft_now
  /\ FtFrame

\* time passes between two calls
Tick ==
  /\ ft_now + TickSeconds <= MaxNow
  /\ ft_now' = ft_now + TickSeconds
  /\ UNCHANGED <<ft_client, ft_call>>
  /\ FtFrame

NextFt ==
  \/ \E token_response \in TokenResponses, search_response \in SearchResponses :
       SearchOffers(token_response, search_response)
  \/ Tick

SpecFt == InitFt /\ [][NextFt]_vars

\* the step of a call of search_offers_async
Searches == ft_call'.n = ft_call.n + 1

\* C18: search_offers_async returns an empty list and does not raise when the
\* token request fails, when the search answers 204, and when the search
\* request fails by a network error, a timeout or an HTTP error; when the
\* token request fails no search request is sent.
ClaimC18 ==
  [][Searches =>
       /\ (\/ ft_call'.token_response \in RequestFailures
           \/ ft_call'.search_response = "204"
           \/ ft_call'.search_response \in RequestFailures) =>
            /\ ft_call'.pc = "returned"
            /\ ft_call'.returned = <<>>
       /\ ft_call'.token_response \in RequestFailures =>
            ft_call'.search_requests = 0]_vars

\* a token is held and the clock has not reached its time of issue plus its
\* expires_in less the margin
TokenFresh ==
  /\ ft_client._access_token # None
  /\ ft_now < ft_client.issue.at + ft_client.issue.expires_in
                - TOKEN_MARGIN_SECONDS

\* C19: a call of search_offers_async sends a token request exactly when the
\* client holds no token or the time is at or past the time of issue plus
\* expires_in minus 60 seconds; otherwise it sends none and the token held is
\* kept.
TheoremC19 ==
  [][Searches =>
       /\ ft_call'.token_requests = (IF TokenFresh THEN 0 ELSE 1)
       /\ TokenFresh => ft_client' = ft_client]_vars

\* the third call on the client, made thirty seconds after the client was
\* made, has requested a token and received one
WitnessC19 ==
  /\ ft_call.pc = "returned"
  /\ ft_call.n = 3
  /\ ft_call.token_requests = 1
  /\ ft_call.token_response = "ok"
  /\ ft_client.issue.at = 30
  /\ ft_now = 30

====
